---- MODULE Spec2Model ----
(***************************************************************************)
(* Model of the voice loop of voicelibre: the TTS playback pipeline        *)
(* (src/components/chat/hooks/useTTSPlayer.ts), the handsfree orchestrator *)
(* (src/components/bottomBar/hooks/useHandsfree.ts), the voice activity    *)
(* detector (src/components/chat/helpers/vad.ts) and the two effects of    *)
(* src/components/chat/hooks/useChat.ts that start playback of a reply.    *)
(*                                                                         *)
(* The browser's event loop is modelled explicitly.  A macrotask (a user   *)
(* action, a timer, the resolution of a fetch / decode / getUserMedia /    *)
(* resume() / play() promise, an `ended` or `stop` event, an animation     *)
(* frame) runs only when the microtask queue is empty; the continuation of *)
(* every `await` is a microtask, run in FIFO order.  A React effect runs   *)
(* right after the step that changed the state it depends on, before any   *)
(* other step; refs that mirror React state are read as that state.        *)
(***************************************************************************)
EXTENDS Integers, Sequences, FiniteSets, TLC

\* ---------------------------------------------------------------- bounds
MaxCalls == 2        \* playTTS calls made directly (bubble clicks)
MaxInterrupts == 1   \* suspensions of the AudioContext by the browser
MaxStops == 2        \* stopTTS calls made directly
MaxRecs == 2         \* recordings (MediaRecorder objects) per session
MaxActs == 2         \* activations of handsfree per session
MaxVads == 2         \* startVAD closures that hold something at once
MaxReads == 2        \* reader.read() results per transcription stream
MaxLines == 2        \* lines per read of the transcription stream
MaxPending == 1      \* getUserMedia calls pending for a recorder at once
MaxEvents == 2       \* events of a transcription stream ahead of `[DONE]`

NumCalls == MaxCalls + MaxRecs + MaxActs
Calls == 1..NumCalls
Recs == 1..MaxRecs
Vads == 1..MaxVads
NoKey == <<0, 0>>
Keys == Calls \X {0, 1}

VARIABLES
  \* --- useTTSPlayer.ts
  isAndroid,        \* primePipeline: the platform reads as Android (no stream
                    \* is attached to the <audio> element)
  primed,           \* primedRef
  startedPull,      \* startedPullRef
  ctxState,         \* ctxRef: "null" | "suspended" | "running"
  ctxCreated,       \* number of AudioContext objects constructed
  cache,            \* audioBufferCacheRef: set of chunk keys <<msg, idx>>
  playQueue,        \* playQueueRef: Seq of queue items
  isDequeuing,      \* isDequeuingRef
  currentNode,      \* currentNodeRef: key of the node, or NoKey
  isPlaying,        \* React state isPlaying (mirrored by isPlayingRef)
  currentMessageId, \* React state currentMessageId (0 = null)
  nodes,            \* AudioBufferSourceNodes, by item key
  calls,            \* playTTS invocations
  \* --- useHandsfree.ts
  isHandsfreeActive, \* React state (mirrored by isHandsfreeRef)
  isRecording,       \* React state
  isLoading,         \* React state (mirrored by isLoadingRef)
  suppressVAD,       \* suppressVADRef
  vadArmed,          \* vadArmedRef
  blockPlayback,     \* blockPlaybackUntilRecordingRef
  seen,              \* <<isPlaying, isRecording>> of the last run of the block effect
  vadStopRef,        \* vadStopRef: the VAD closure whose stop() it holds, 0 = null
  mediaRecorderRef,  \* mediaRecorderRef: recorder id, 0 = null
  recs,              \* MediaRecorder objects
  recStarts,         \* getUserMedia calls pending for a recorder, by kind
  uploads,           \* sendAudioToAPI invocations, by recorder
  emittedRef,        \* emittedRef
  \* --- vad.ts
  vads,              \* startVAD closures
  \* --- useChat.ts / useStreamingChat.ts
  ttsStartedRef,     \* ttsStartedRef
  isStreaming,       \* React state of useStreamingChat
  streamingMessageId, \* React state of useStreamingChat (0 = null)
  msgs,              \* assistant messages (one per handleNewTranscription
                     \* call) and the request of each: pc = "streaming"
                     \* (await fetch) | "reading" | "done"; shown = the
                     \* message is in `messages` (not deleted); loading =
                     \* isTTSLoading of its bubble
  \* --- event loop
  microQ,           \* microtask queue (continuations of awaits)
  resumeWait,       \* continuations awaiting ctx.resume()
  playWait,         \* continuations awaiting HTMLAudioElement.play()
  timers,           \* pending setTimeout callbacks, in creation order
  \* --- history (observation only)
  enqOrder,         \* keys in the order they were pushed on playQueue
  startOrder,       \* keys in the order node.start() was called
  stops,            \* number of direct stopTTS calls
  interrupts,       \* number of times the browser suspended the context
  completeSignals,  \* "tts-oncomplete" events dispatched, by playTTS call
  emissions,        \* onNewTranscription calls, in order
  doneSeen,         \* `data: [DONE]` lines delivered to each upload
  streams,          \* the body of each upload's response: the characters
                    \* the server sends and how many of them were read
  guardedTurn,      \* the handsfree turn that began playing and whose
                    \* completion debounce has not elapsed (0 = none)
  blockedTurn,      \* the handsfree turn whose playback the block effect
                    \* of useHandsfree stopped (0 = none)
  roundTrip,        \* the round trip that no re-arm has closed: the recorder
                    \* whose recording a VAD speech-stop ended (0 = none)
                    \* and the number of playTTS calls begun by then
  chunked,          \* the text last given to chunkTextForTTS and the
                    \* chunks it returned
  lateRearm,        \* a debounce callback of handleTTSComplete set under
                    \* an earlier activation has run under a later one
  acts              \* number of activations of handsfree

pipeVars == <<isAndroid, primed, startedPull, ctxState, ctxCreated>>
qVars == <<playQueue, isDequeuing, currentNode, isPlaying, currentMessageId,
           nodes>>
ttsVars == <<pipeVars, qVars, cache, calls>>
\* what the orchestrator's event handlers write
hVars == <<isRecording, isLoading, suppressVAD, vadArmed, blockPlayback,
           vadStopRef, vads, mediaRecorderRef, recs, timers>>
upVars == <<uploads, emittedRef, emissions, doneSeen, streams>>
chatVars == <<ttsStartedRef, isStreaming, streamingMessageId, msgs>>
hfRest == <<isHandsfreeActive, seen, recStarts, upVars, chatVars, acts>>
waitVars == <<microQ, resumeWait, playWait>>
histVars == <<enqOrder, startOrder, stops, interrupts, completeSignals,
              guardedTurn, blockedTurn, roundTrip, chunked, lateRearm>>
vars == <<ttsVars, hVars, hfRest, waitVars, histVars>>

\* ------------------------------------------------------------ data shapes
NoNode == [st |-> "none", base |-> 0, hf |-> FALSE, last |-> FALSE, cb |-> FALSE]

\* AudioUsage: null, or the audioUsage parsed from the x-audio-details
\* header (cost, char_count, latency).
NoUsage == [has |-> FALSE, cost |-> 0, chars |-> 0, lat |-> 0]

Usage(cost, chars, lat) ==
  [has |-> TRUE, cost |-> cost, chars |-> chars, lat |-> lat]

\* A playTTS invocation.  iu, ru = the usage that came with the intro and
\* with the remainder; out = the usage returned.  cut (observation only):
\* stopTTS was called directly after the invocation began.  twin
\* (observation only): at its entry another invocation for the same turn
\* was fetching its intro.
IdleCall == [pc |-> "idle", msg |-> 0, rem |-> FALSE, hf |-> FALSE, cb |-> FALSE,
             intro |-> "none", remf |-> "none", ret |-> "none", cut |-> FALSE,
             iu |-> NoUsage, ru |-> NoUsage, out |-> NoUsage, twin |-> FALSE]

\* A continuation: k = "play" (playTTS call c), "hplay" (handlePlayTTS call
\* c) or "msn" (a maybeStartNext invocation); st = the point at which it
\* resumes; ret = where it resumes once primePipeline() has returned.
Task(k, c, st, ok, key, idle, ret) ==
  [k |-> k, c |-> c, st |-> st, ok |-> ok, key |-> key, idle |-> idle,
   ret |-> ret]

PlayTask(c, st) == Task("play", c, st, FALSE, NoKey, FALSE, "epr1")
HPlayTask(c, st, ret) == Task("hplay", c, st, FALSE, NoKey, FALSE, ret)
MsnTask(st) == Task("msn", 0, st, FALSE, NoKey, FALSE, "epr1")

\* QueueItem pushed by enqueueBuffer
QueueItem(key, base, hf, last, cb) ==
  [key |-> key, base |-> base, hf |-> hf, last |-> last, cb |-> cb]

\* A startVAD closure: st = "none" | "init" (getUserMedia pending) |
\* "running" | "failed" | "leaked" (stopped, yet holding a stream and a
\* context it acquired afterwards).
\* cbs = the last two callbacks it has made, the latest last.
NoVad == [st |-> "none", stopped |-> FALSE, speaking |-> FALSE,
          cbs |-> <<"none", "none">>]

\* A MediaRecorder: st = "none" | "recording" | "stopping" (inactive, its
\* stop event not yet delivered) | "inactive"; tracks = its stream is live.
NoRec == [st |-> "none", tracks |-> FALSE, kind |-> "none"]

\* A sendAudioToAPI invocation: pc = "none" | "fetch" | "read" | "done";
\* err = what its catch block caught, "" if nothing.
NoUpload == [pc |-> "none", text |-> <<>>, usage |-> "", reads |-> 0,
             err |-> ""]

\* The body of a transcription response: sent = its characters, pos = the
\* number of them that reader.read() has delivered.
NoStream == [sent |-> <<>>, pos |-> 0]

\* No text has been chunked.
NoChunks == [text |-> <<>>, chunks |-> <<>>]

NoTrip == [rec |-> 0, from |-> 0]

\* The assistant message that handleNewTranscription appends, its text
\* empty, and the request it is about to make.
NewMessage(id) ==
  [id |-> id, text |-> FALSE, rem |-> FALSE, pc |-> "streaming",
   shown |-> TRUE, loading |-> FALSE]

\* The state after mount, with the messages ms.
InitWith(ms) ==
  /\ isAndroid \in BOOLEAN
  /\ primed = FALSE
  /\ startedPull = FALSE
  /\ ctxState = "null"
  /\ ctxCreated = 0
  /\ cache = {}
  /\ playQueue = <<>>
  /\ isDequeuing = FALSE
  /\ currentNode = NoKey
  /\ isPlaying = FALSE
  /\ currentMessageId = 0
  /\ nodes = [k \in Keys |-> NoNode]
  /\ calls = [c \in Calls |-> IdleCall]
  /\ isHandsfreeActive = FALSE
  /\ isRecording = FALSE
  /\ isLoading = FALSE
  /\ suppressVAD = FALSE
  /\ vadArmed = FALSE
  /\ blockPlayback = FALSE
  /\ seen = <<FALSE, FALSE>>
  /\ vadStopRef = 0
  /\ mediaRecorderRef = 0
  /\ recs = [r \in Recs |-> NoRec]
  /\ recStarts = [vad |-> 0, manual |-> 0]
  /\ uploads = [r \in Recs |-> NoUpload]
  /\ emittedRef = FALSE
  /\ vads = [v \in Vads |-> NoVad]
  /\ ttsStartedRef = FALSE
  /\ isStreaming = FALSE
  /\ streamingMessageId = 0
  /\ msgs = ms
  /\ microQ = <<>>
  /\ resumeWait = <<>>
  /\ playWait = <<>>
  /\ timers = <<>>
  /\ enqOrder = <<>>
  /\ startOrder = <<>>
  /\ stops = 0
  /\ interrupts = 0
  /\ completeSignals = [c \in Calls |-> 0]
  /\ emissions = <<>>
  /\ doneSeen = [r \in Recs |-> 0]
  /\ streams = [r \in Recs |-> NoStream]
  /\ guardedTurn = 0
  /\ blockedTurn = 0
  /\ roundTrip = NoTrip
  /\ chunked = NoChunks
  /\ lateRearm = FALSE
  /\ acts = 0

\* A new conversation: no messages.
Init == InitWith(<<>>)

\* useChat on mount with a transcript kept in localStorage under
\* "transcript_restore": its last assistant message has text, which
\* chunkTextForTTS splits (rem) or not.
InitRestored ==
  \E r \in BOOLEAN :
    InitWith(<<[NewMessage(1) EXCEPT !.text = TRUE, !.rem = r, !.pc = "done"]>>)
\* ------------------------------------------------------------ event loop
\* act (observation only): for the timer of handleTTSComplete, the
\* activation whose listener set it.
Timer(kind, delay, c) == [kind |-> kind, delay |-> delay, c |-> c, act |-> 0]

\* setTimeout: a timer may fire once no earlier-created timer with a delay
\* that is not longer is still pending.
CanFire(i) ==
  \A j \in 1..(i - 1) : timers[j].delay > timers[i].delay

RemoveAt(s, i) == SubSeq(s, 1, i - 1) \o SubSeq(s, i + 1, Len(s))

At(t, st) == [t EXCEPT !.st = st]

\* The block effect of useHandsfree (deps isPlaying, isRecording) has to run.
BlockPending == seen # <<isPlaying, isRecording>>

\* useChat: the last assistant message that has text and is not the one
\* playing (its index in msgs, 0 if there is none)
LastAssistant ==
  LET S == {i \in 1..Len(msgs) : /\ msgs[i].shown
                                  /\ msgs[i].text
                                  /\ msgs[i].id # currentMessageId}
  IN IF S = {} THEN 0 ELSE CHOOSE i \in S : \A j \in S : j <= i

\* The auto-play effect of useChat has something to do.
AutoPlayPending ==
  /\ ~BlockPending
  /\ isHandsfreeActive
  /\ ~isStreaming
  /\ LastAssistant # 0
  /\ ~ttsStartedRef

\* ChatBubble: the effect on isPlayingTTS of a bubble has to run, the
\* bubble being the one playing with its isTTSLoading set.
LoadingPending ==
  \E i \in 1..Len(msgs) :
    msgs[i].shown /\ msgs[i].loading /\ msgs[i].id = currentMessageId

EffectPending == BlockPending \/ AutoPlayPending \/ LoadingPending

\* An effect runs after the render that follows a state change, and the
\* render comes after every promise continuation that is already queued.
EffectReady == microQ = <<>>

\* A macrotask starts only when every microtask and every effect has run.
MacroReady == microQ = <<>> /\ ~EffectPending

\* The continuation at the head of the microtask queue resumes at st.
Micro(st) ==
  /\ microQ # <<>>
  /\ Head(microQ).st = st

MicroHead(k, st) == Micro(st) /\ Head(microQ).k = k

\* ------------------------------------------------------------- vad.ts
\* stop(): stopped = true, cancel the frame, close the context, stop the
\* tracks, clear the silence timer.  While getUserMedia is pending there is
\* no stream to stop yet.  A stopped closure that holds nothing is dropped.
VadStopped(vs, v) ==
  IF v = 0 THEN vs
  ELSE [vs EXCEPT ![v] = IF @.st = "init" THEN [@ EXCEPT !.stopped = TRUE]
                                          ELSE NoVad]

NoSilence(ts, v) ==
  SelectSeq(ts, LAMBDA t : ~(t.kind = "silence" /\ t.c = v))

FreeVads(vs) == {v \in Vads : vs[v].st = "none"}

NewVad(vs) == CHOOSE v \in FreeVads(vs) : \A w \in FreeVads(vs) : v <= w

\* startVAD(): a new closure; init() has called getUserMedia.
VadStarted(vs) ==
  [vs EXCEPT ![NewVad(vs)] = [NoVad EXCEPT !.st = "init"]]

\* ------------------------------------- useHandsfree.ts, event handlers
\* The refs and state the handlers write, as one record; a handler is a
\* function from this record to this record.
Cur ==
  [isRecording |-> isRecording, isLoading |-> isLoading,
   suppressVAD |-> suppressVAD, vadArmed |-> vadArmed,
   blockPlayback |-> blockPlayback, vadStopRef |-> vadStopRef, vads |-> vads,
   mediaRecorderRef |-> mediaRecorderRef, recs |-> recs, timers |-> timers]

SetH(h) ==
  /\ isRecording' = h.isRecording
  /\ isLoading' = h.isLoading
  /\ suppressVAD' = h.suppressVAD
  /\ vadArmed' = h.vadArmed
  /\ blockPlayback' = h.blockPlayback
  /\ vadStopRef' = h.vadStopRef
  /\ vads' = h.vads
  /\ mediaRecorderRef' = h.mediaRecorderRef
  /\ recs' = h.recs
  /\ timers' = h.timers

\* vadStopRef.current?.(); vadStopRef.current = null
StopVad(h) ==
  [h EXCEPT !.vads = VadStopped(h.vads, h.vadStopRef),
            !.timers = NoSilence(h.timers, h.vadStopRef),
            !.vadStopRef = 0]

\* A startVADInternal without its guard: the faulty variant against which
\* C25 is tested.
StartVADInternalUnguarded(h) ==
  IF FreeVads(h.vads) = {} THEN h
  ELSE [h EXCEPT !.vadArmed = TRUE, !.vads = VadStarted(h.vads),
                 !.vadStopRef = NewVad(h.vads)]

\* startVADInternal(): `if (vadArmedRef.current) return`, else arm.
StartVADInternal(h) ==
  IF h.vadArmed THEN h
  ELSE [h EXCEPT !.vadArmed = TRUE, !.vads = VadStarted(h.vads),
                 !.vadStopRef = NewVad(h.vads)]

\* The model has a closure to give to startVADInternal.
CanArm(h) == h.vadArmed \/ FreeVads(h.vads) # {}

\* A listener that sets the suppression flag and leaves the VAD loop
\* running: the faulty variant against which C24 is tested.
HandleTTSStartSuppressing(h) ==
  [h EXCEPT !.isLoading = FALSE, !.isRecording = FALSE, !.suppressVAD = TRUE,
            !.vadArmed = FALSE]

\* handleTTSStart, the listener of "tts-started-flag"
HandleTTSStart(h) ==
  [StopVad(h) EXCEPT !.isLoading = FALSE, !.isRecording = FALSE,
                     !.suppressVAD = TRUE, !.vadArmed = FALSE]

\* The callback of the 300 ms timer of handleTTSComplete.  The closure's
\* isHandsfreeActive is the value of the render that registered the
\* listener, which is true.
Debounced(h) ==
  StartVADInternal([h EXCEPT !.isLoading = FALSE, !.isRecording = FALSE,
                             !.suppressVAD = FALSE])

\* recorder.stop(); recorder.stream.getTracks().forEach(t => t.stop())
RecStopped(rs, r) ==
  [rs EXCEPT ![r] = [st |-> IF rs[r].st = "recording" THEN "stopping"
                                                       ELSE rs[r].st,
                     tracks |-> FALSE, kind |-> rs[r].kind]]

\* stopRecordingAndSend().  stop() of an inactive MediaRecorder throws
\* InvalidStateError in some browsers and returns in others.
StopRecordingAndSend(h, throws) ==
  IF h.mediaRecorderRef = 0 THEN h
  ELSE IF h.recs[h.mediaRecorderRef].st # "recording" /\ throws THEN h
  ELSE [h EXCEPT !.recs = RecStopped(h.recs, h.mediaRecorderRef),
                 !.isRecording = FALSE, !.suppressVAD = TRUE,
                 !.isLoading = TRUE]

Recording(h) ==
  h.mediaRecorderRef # 0 /\ h.recs[h.mediaRecorderRef].st = "recording"

\* The effect on isHandsfreeActive, turned off
TurnedOff(h) ==
  LET g == [StopVad([h EXCEPT !.suppressVAD = FALSE]) EXCEPT !.vadArmed = FALSE]
  IN IF Recording(g) THEN StopRecordingAndSend(g, FALSE) ELSE g

\* handlePlayTTSWrapped with isHandsfreeFlag, up to `await prime()`
PlaybackPrepared(h) ==
  LET g == StopVad([h EXCEPT !.suppressVAD = TRUE])
  IN IF Recording(g)
       THEN [g EXCEPT !.recs = RecStopped(g.recs, g.mediaRecorderRef),
                      !.isRecording = FALSE]
       ELSE g

\* window.dispatchEvent(new Event("tts-started-flag")); the listener is
\* registered while isHandsfreeActive.
DispatchStarted(h, wasIdle) ==
  IF wasIdle /\ isHandsfreeActive THEN HandleTTSStart(h) ELSE h

\* window.dispatchEvent(new Event("tts-oncomplete")) for the turn of call
\* c: handleTTSComplete sets a 300 ms timer.
DispatchComplete(ts, c) ==
  IF isHandsfreeActive
    THEN Append(ts, [Timer("debounce", 300, c) EXCEPT !.act = acts])
    ELSE ts

\* --------------------------------------------------------- primePipeline
\* Synchronous part of primePipeline(): where the caller's continuation
\* goes.  cs is the context state after
\* `ctxRef.current ??= new AudioContext()`.
PrimeEntry(cs) ==
  IF primed THEN [dest |-> "micro", ret |-> TRUE, primes |-> FALSE]
  ELSE IF ~startedPull /\ ~isAndroid
         THEN [dest |-> "play", ret |-> FALSE, primes |-> FALSE]
  ELSE IF cs = "suspended"
         THEN [dest |-> "resume", ret |-> FALSE, primes |-> FALSE]
  ELSE [dest |-> "micro", ret |-> TRUE, primes |-> TRUE]

EntryStage(e, t) ==
  IF e.ret THEN t.ret ELSE IF e.dest = "play" THEN "pp1" ELSE "pp2"

AddTo(dest, q, e, t) ==
  IF e.dest = dest THEN Append(q, At(t, EntryStage(e, t))) ELSE q

\* A primePipeline that builds the graph on every call that finds the
\* pipeline not primed: the faulty variant against which C22 is tested.
GraphBuiltUnlessPrimed == ~primed

\* primePipeline builds the graph: past `if (primedRef.current) return`,
\* each `ref.current ??= ...` of the context, the master gain, the analyser
\* and the stream destination finds its ref empty.  The four refs are
\* filled in the same synchronous block, so ctxCreated counts each of them.
GraphBuilt == ~primed /\ ctxState = "null"

\* `await primePipeline()` by the continuation t; q is the microtask queue
\* without the caller.  A new AudioContext starts suspended or running.
CallPrime(t, q) ==
  \E cs \in {"suspended", "running"} :
    LET created == GraphBuilt
        ns == IF created THEN cs ELSE ctxState
        e == PrimeEntry(ns)
    IN /\ (~created => cs = "running")
       /\ ctxState' = ns
       /\ ctxCreated' = IF created THEN ctxCreated + 1 ELSE ctxCreated
       /\ primed' = (primed \/ e.primes)
       /\ microQ' = AddTo("micro", q, e, t)
       /\ resumeWait' = AddTo("resume", resumeWait, e, t)
       /\ playWait' = AddTo("play", playWait, e, t)

\* primePipeline, after `await audio.play()`
MicroPP1 ==
  /\ Micro("pp1")
  /\ LET t == Head(microQ) IN
     /\ startedPull' = TRUE
     /\ IF ctxState = "suspended"
          THEN /\ resumeWait' = Append(resumeWait, At(t, "pp2"))
               /\ microQ' = Tail(microQ)
               /\ UNCHANGED primed
          ELSE /\ primed' = TRUE
               /\ microQ' = Append(Tail(microQ), At(t, t.ret))
               /\ UNCHANGED resumeWait
  /\ UNCHANGED <<isAndroid, ctxState, ctxCreated, cache, qVars, calls,
                 playWait, hVars, hfRest, histVars>>

\* primePipeline, after `await ctx.resume()`
MicroPP2 ==
  /\ Micro("pp2")
  /\ primed' = TRUE
  /\ microQ' = Append(Tail(microQ), At(Head(microQ), Head(microQ).ret))
  /\ UNCHANGED <<isAndroid, startedPull, ctxState, ctxCreated, cache, qVars,
                 calls, resumeWait, playWait, hVars, hfRest, histVars>>

\* ensurePlaybackReady, after `await primePipeline()`
MicroEPR1 ==
  /\ Micro("epr1")
  /\ LET t == Head(microQ) IN
     IF ctxState = "null"
       THEN /\ microQ' = Append(Tail(microQ), [At(t, "cont") EXCEPT !.ok = FALSE])
            /\ UNCHANGED resumeWait
     ELSE IF ctxState = "suspended"
       THEN /\ resumeWait' = Append(resumeWait, At(t, "epr2"))
            /\ microQ' = Tail(microQ)
     ELSE /\ microQ' = Append(Tail(microQ), [At(t, "cont") EXCEPT !.ok = TRUE])
          /\ UNCHANGED resumeWait
  /\ UNCHANGED <<ttsVars, playWait, hVars, hfRest, histVars>>

\* An ensurePlaybackReady that reports success whatever became of
\* ctx.resume(): the faulty variant against which C29 is tested.
PlaybackReadyAlways == TRUE

\* The result of ensurePlaybackReady: `return ctx.state === "running"`.
PlaybackReady == ctxState = "running"

\* ensurePlaybackReady, after `await ctx.resume()`
MicroEPR2 ==
  /\ Micro("epr2")
  /\ microQ' = Append(Tail(microQ),
                 [At(Head(microQ), "cont") EXCEPT !.ok = PlaybackReady])
  /\ UNCHANGED <<ttsVars, resumeWait, playWait, hVars, hfRest, histVars>>

\* The promise of ctx.resume() settles; the context runs, or it does not.
ResumeResolve(ok) ==
  /\ MacroReady
  /\ resumeWait # <<>>
  /\ ctxState' = IF ok THEN "running" ELSE ctxState
  /\ microQ' = <<Head(resumeWait)>>
  /\ resumeWait' = Tail(resumeWait)
  /\ UNCHANGED <<isAndroid, primed, startedPull, ctxCreated, cache, qVars,
                 calls, playWait, hVars, hfRest, histVars>>

\* The promise of HTMLAudioElement.play() settles (either way: both call
\* sites swallow the rejection).
PlayResolve ==
  /\ MacroReady
  /\ playWait # <<>>
  /\ microQ' = <<Head(playWait)>>
  /\ playWait' = Tail(playWait)
  /\ UNCHANGED <<ttsVars, resumeWait, hVars, hfRest, histVars>>

\* The browser suspends a running AudioContext (interruption, backgrounding).
CtxInterrupt ==
  /\ MacroReady
  /\ ctxState = "running"
  /\ interrupts < MaxInterrupts
  /\ ctxState' = "suspended"
  /\ interrupts' = interrupts + 1
  /\ UNCHANGED <<isAndroid, primed, startedPull, ctxCreated, cache, qVars,
                 calls, waitVars, hVars, hfRest, enqOrder, startOrder, stops,
                 completeSignals, guardedTurn, blockedTurn, roundTrip, chunked, lateRearm>>

\* maybeStartNext(), synchronous part: both guards, then the call of
\* ensurePlaybackReady() whose result is awaited (the pipeline is primed
\* whenever the queue is not empty).  dq and pq are the values of
\* isDequeuingRef and playQueueRef at the call.
MsnSpawn(q, dq, pq) ==
  IF dq \/ pq = <<>> THEN q
  ELSE Append(q, MsnTask("epr1"))

\* ------------------------------------------------------------- playTTS
\* A fetchAndDecode that never consults the cache: the faulty variant
\* against which C28 is tested.
CacheNeverHit(key) == FALSE

\* fetchAndDecode returns the cached buffer without a request:
\* `audioBufferCacheRef.current[messageId] && ctxRef.current`.
CacheHit(key) == key \in cache /\ ctxState # "null"

FetchStart(key) == IF CacheHit(key) THEN "hit" ELSE "pending"

\* The promise of a fetchAndDecode call is settled: fulfilled with the
\* decoded audio ("ok", "hit") or with null ("fail"), or rejected.
Resolved(f) == f \in {"ok", "hit", "fail", "reject"}

FirstIdle(c) ==
  /\ calls[c].pc \in {"idle"}
  /\ \A d \in Calls : d < c => calls[d].pc # "idle"

\* Another invocation than c is fetching or decoding the intro of turn m.
Fetching(c, m) ==
  \E d \in Calls \ {c} : calls[d].msg = m /\ calls[d].intro = "pending"

\* playTTS(messageId, text, isHandsfree, onComplete): entry up to the first
\* await.  rem says whether chunkTextForTTS(text) yields a remainder; dup is
\* `currentMessageId === messageId && isPlaying` in the render whose playTTS
\* is called; q is the microtask queue without the caller.
PlayTTSEntry(c, m, rem, hf, cb, dup, q) ==
  IF dup
    THEN /\ calls' = [calls EXCEPT ![c] =
              [@ EXCEPT !.pc = "done", !.msg = m, !.rem = rem, !.hf = hf,
                        !.cb = cb, !.ret = "null"]]
         /\ microQ' = q
         /\ UNCHANGED <<primed, ctxState, ctxCreated, resumeWait, playWait>>
    ELSE /\ calls' = [calls EXCEPT ![c] =
              [@ EXCEPT !.pc = "ready", !.msg = m, !.rem = rem,
                        !.hf = hf, !.cb = cb, !.twin = Fetching(c, m)]]
         /\ CallPrime(PlayTask(c, "epr1"), q)

\* playTTS(messageId, text, false, undefined) called by an event handler,
\* as far as the player and the orchestrator go.
PlayTTSCall(c, m, rem) ==
  /\ MacroReady
  /\ FirstIdle(c)
  /\ Cardinality({d \in Calls : calls[d].pc # "idle" /\ ~calls[d].hf}) < MaxCalls
  /\ PlayTTSEntry(c, m, rem, FALSE, FALSE, currentMessageId = m /\ isPlaying,
                  microQ)
  /\ UNCHANGED <<isAndroid, startedPull, cache, qVars, hVars, histVars>>

\* playTTS(messageId, text, false, undefined) called by itself
PlayTTS(c, m, rem) ==
  /\ PlayTTSCall(c, m, rem)
  /\ UNCHANGED hfRest

\* ------------------------------------------------ playTTS, continuations
IntroItem(c) ==
  QueueItem(<<c, 0>>, calls[c].msg, ~calls[c].rem /\ calls[c].hf,
            ~calls[c].rem, ~calls[c].rem /\ calls[c].cb)

RemItem(c) ==
  QueueItem(<<c, 1>>, calls[c].msg, calls[c].hf, TRUE, calls[c].cb)

\* playTTS after `await ensurePlaybackReady()`: chunk the text, issue both
\* fetchAndDecode calls, await the intro.
PlayCont ==
  /\ MicroHead("play", "cont")
  /\ LET t == Head(microQ)
         c == t.c
         fi == FetchStart(<<calls[c].msg, 0>>)
         fr == IF calls[c].rem THEN FetchStart(<<calls[c].msg, 1>>) ELSE "norem"
     IN IF ~t.ok
          THEN /\ calls' = [calls EXCEPT ![c] = [@ EXCEPT !.pc = "done", !.ret = "null"]]
               /\ microQ' = Tail(microQ)
          ELSE /\ calls' = [calls EXCEPT ![c] =
                    [@ EXCEPT !.intro = fi, !.remf = fr,
                              !.pc = IF fi = "hit" THEN "ready" ELSE "awaitIntro"]]
               /\ microQ' = IF fi = "hit"
                              THEN Append(Tail(microQ), PlayTask(c, "intro"))
                              ELSE Tail(microQ)
  /\ UNCHANGED <<pipeVars, cache, qVars, resumeWait, playWait, hVars, hfRest,
                 histVars>>

\* The ways a fetchAndDecode call ends: "ok" = fetch, blob and decode
\* succeeded (the buffer is cached and returned with the usage of the
\* header); "fail" = it returns null (`!response.ok`, an empty blob, or
\* arrayBuffer/decodeAudioData throwing inside the try); "reject" = fetch()
\* or response.blob() rejects, which nothing in fetchAndDecode catches, so
\* its promise is rejected.
FetchResults == {"ok", "fail", "reject"}

\* fetchAndDecode(chunk idx of call c) settles with res.  Between `await
\* fetch`, `await response.blob()`, `await blob.arrayBuffer()` and `await
\* ctx.decodeAudioData` the function holds locals only and reads or writes
\* no ref or state, so the four waits are one step here: the one in which
\* the cache is written and the awaiting playTTS is resumed.
FetchSettle(c, idx, res, u) ==
  /\ MacroReady
  /\ IF idx = 0 THEN calls[c].intro = "pending" ELSE calls[c].remf = "pending"
  /\ calls' = [calls EXCEPT ![c] =
       IF idx = 0 THEN [@ EXCEPT !.intro = res, !.iu = u]
                  ELSE [@ EXCEPT !.remf = res, !.ru = u]]
  /\ cache' = IF res = "ok" THEN cache \cup {<<calls[c].msg, idx>>} ELSE cache
  /\ microQ' = IF idx = 0 /\ calls[c].pc = "awaitIntro"
                 THEN <<PlayTask(c, "intro")>>
               ELSE IF idx = 1 /\ calls[c].pc = "awaitRem"
                 THEN <<PlayTask(c, "rem")>>
               ELSE microQ
  /\ UNCHANGED <<pipeVars, qVars, resumeWait, playWait, hVars, hfRest,
                 histVars>>

\* fetchAndDecode settles; a response that succeeds has no
\* x-audio-details header.
FetchResolve(c, idx, res) == FetchSettle(c, idx, res, NoUsage)

\* Usage figures in equal units
Usages ==
  {Usage(1, 30, 100), Usage(2, 50, 200), Usage(2, 50, 101), Usage(0, 0, 0)}

\* fetchAndDecode succeeds with a header that holds the usage u.
FetchResolveUsage(c, idx, u) == FetchSettle(c, idx, "ok", u)

\* Math.round(x / 2) for x >= 0
RoundHalf(x) == (x + 1) \div 2

\* An aggregate that reports the intro alone: the faulty variant against
\* which C27 is tested.
AggregateIntroOnly(iu, ru) == iu

\* The end of playTTS: cost and char_count summed with `?? 0`, latency the
\* rounded mean of two values or the one there is, null if nothing is set.
Aggregate(iu, ru) ==
  LET cost == (IF iu.has THEN iu.cost ELSE 0) + (IF ru.has THEN ru.cost ELSE 0)
      chars == (IF iu.has THEN iu.chars ELSE 0) + (IF ru.has THEN ru.chars ELSE 0)
      lat == IF iu.has /\ ru.has THEN RoundHalf(iu.lat + ru.lat)
             ELSE IF iu.has THEN iu.lat
             ELSE IF ru.has THEN ru.lat ELSE 0
  IN IF iu.has \/ ru.has \/ cost # 0 \/ chars # 0
       THEN Usage(cost, chars, lat) ELSE NoUsage

\* `!intro?.buffer`
IntroMissing(c) == calls[c].intro = "fail"

\* playTTS after `await introP`; enqueueBuffer(buffer, opts) is a push
\* followed by `void maybeStartNext()`.  A rejected introP is thrown by the
\* await, and playTTS, which has no try, ends with its promise rejected.
PlayIntro ==
  /\ MicroHead("play", "intro")
  /\ LET c == Head(microQ).c
         pq == Append(playQueue, IntroItem(c))
     IN IF calls[c].intro = "reject"
          THEN /\ calls' = [calls EXCEPT ![c] = [@ EXCEPT !.pc = "done", !.ret = "rejected"]]
               /\ microQ' = Tail(microQ)
               /\ UNCHANGED <<playQueue, enqOrder>>
        ELSE IF IntroMissing(c)
          THEN /\ calls' = [calls EXCEPT ![c] = [@ EXCEPT !.pc = "done", !.ret = "null"]]
               /\ microQ' = Tail(microQ)
               /\ UNCHANGED <<playQueue, enqOrder>>
          ELSE /\ playQueue' = pq
               /\ enqOrder' = Append(enqOrder, <<c, 0>>)
               /\ microQ' = Append(MsnSpawn(Tail(microQ), isDequeuing, pq),
                                   PlayTask(c, "enq1"))
               /\ calls' = [calls EXCEPT ![c] = [@ EXCEPT !.pc = "ready"]]
  /\ UNCHANGED <<pipeVars, cache, isDequeuing, currentNode, isPlaying,
                 currentMessageId, nodes, resumeWait, playWait, hVars, hfRest,
                 startOrder, stops, interrupts, completeSignals, guardedTurn, blockedTurn, roundTrip, chunked, lateRearm>>

\* playTTS after `await enqueueBuffer(intro.buffer, ...)`: `await
\* remainderP` if there is a remainder, else the first `await remainderP`
\* of the usage (a promise resolved with null).
PlayEnq1 ==
  /\ MicroHead("play", "enq1")
  /\ LET c == Head(microQ).c IN
     IF ~calls[c].rem
       THEN /\ microQ' = Append(Tail(microQ), PlayTask(c, "cost"))
            /\ UNCHANGED calls
     ELSE IF Resolved(calls[c].remf)
       THEN /\ microQ' = Append(Tail(microQ), PlayTask(c, "rem"))
            /\ UNCHANGED calls
     ELSE /\ calls' = [calls EXCEPT ![c] = [@ EXCEPT !.pc = "awaitRem"]]
          /\ microQ' = Tail(microQ)
  /\ UNCHANGED <<pipeVars, cache, qVars, resumeWait, playWait, hVars, hfRest,
                 histVars>>

\* playTTS after `await remainderP`.  A rejected remainderP is thrown by
\* the await: playTTS ends with its promise rejected and dispatches
\* nothing.  A missing remainder dispatches "tts-oncomplete" at once for a
\* handsfree turn.
PlayRem ==
  /\ MicroHead("play", "rem")
  /\ LET c == Head(microQ).c
         pq == Append(playQueue, RemItem(c))
     IN IF calls[c].remf = "reject"
          THEN /\ calls' = [calls EXCEPT ![c] = [@ EXCEPT !.pc = "done", !.ret = "rejected"]]
               /\ microQ' = Tail(microQ)
               /\ UNCHANGED <<playQueue, enqOrder, completeSignals, timers>>
        ELSE IF calls[c].remf = "fail"
          THEN /\ calls' = [calls EXCEPT ![c] =
                    [@ EXCEPT !.pc = "done", !.ret = "intro", !.out = calls[c].iu]]
               /\ microQ' = Tail(microQ)
               /\ completeSignals' =
                    IF calls[c].hf THEN [completeSignals EXCEPT ![c] = @ + 1]
                                   ELSE completeSignals
               /\ timers' = IF calls[c].hf THEN DispatchComplete(timers, c)
                                           ELSE timers
               /\ UNCHANGED <<playQueue, enqOrder>>
          ELSE /\ playQueue' = pq
               /\ enqOrder' = Append(enqOrder, <<c, 1>>)
               /\ microQ' = Append(MsnSpawn(Tail(microQ), isDequeuing, pq),
                                   PlayTask(c, "enq2"))
               /\ calls' = [calls EXCEPT ![c] = [@ EXCEPT !.pc = "ready"]]
               /\ UNCHANGED <<completeSignals, timers>>
  /\ UNCHANGED <<pipeVars, cache, isDequeuing, currentNode, isPlaying,
                 currentMessageId, nodes, resumeWait, playWait, isRecording,
                 isLoading, suppressVAD, vadArmed, blockPlayback, vadStopRef,
                 vads, mediaRecorderRef, recs, hfRest, startOrder, stops,
                 interrupts, guardedTurn, blockedTurn, roundTrip, chunked, lateRearm>>

\* playTTS after `await enqueueBuffer(rem.buffer, ...)`: the first `await
\* remainderP` of the usage.
PlayEnq2 ==
  /\ MicroHead("play", "enq2")
  /\ microQ' = Append(Tail(microQ), PlayTask(Head(microQ).c, "cost"))
  /\ UNCHANGED <<pipeVars, cache, qVars, calls, resumeWait, playWait, hVars,
                 hfRest, histVars>>

\* playTTS with `cost` computed: the `await remainderP` of char_count.
PlayCost ==
  /\ MicroHead("play", "cost")
  /\ microQ' = Append(Tail(microQ), PlayTask(Head(microQ).c, "chars"))
  /\ UNCHANGED <<pipeVars, cache, qVars, calls, resumeWait, playWait, hVars,
                 hfRest, histVars>>

\* playTTS with `char_count` computed: the `await remainderP` of `b`.
PlayChars ==
  /\ MicroHead("play", "chars")
  /\ microQ' = Append(Tail(microQ), PlayTask(Head(microQ).c, "latency"))
  /\ UNCHANGED <<pipeVars, cache, qVars, calls, resumeWait, playWait, hVars,
                 hfRest, histVars>>

\* playTTS after the last `await remainderP`: the latency, and the return
\* of the aggregated usage (the remainder of a text without one has none).
PlayLatency ==
  /\ MicroHead("play", "latency")
  /\ LET c == Head(microQ).c IN
     calls' = [calls EXCEPT ![c] =
       [@ EXCEPT !.pc = "done", !.ret = "usage",
                 !.out = Aggregate(calls[c].iu,
                                   IF calls[c].rem THEN calls[c].ru ELSE NoUsage)]]
  /\ microQ' = Tail(microQ)
  /\ UNCHANGED <<pipeVars, cache, qVars, resumeWait, playWait, hVars, hfRest,
                 histVars>>

\* -------------------------------------------------------- maybeStartNext
\* The microtask queued by node.onended.
MsnInvoke ==
  /\ MicroHead("msn", "invoke")
  /\ microQ' = MsnSpawn(Tail(microQ), isDequeuing, playQueue)
  /\ UNCHANGED <<ttsVars, resumeWait, playWait, hVars, hfRest, histVars>>

\* From `if (wasIdle)` to node.start(startAt): the started flag and its
\* listener, the React state, node.onended, node.start.
StartNode(key, wasIdle, base, ns) ==
  /\ nodes' = [ns EXCEPT ![key] = [@ EXCEPT !.st = "playing"]]
  /\ startOrder' = Append(startOrder, key)
  /\ isPlaying' = IF wasIdle THEN TRUE ELSE isPlaying
  /\ currentMessageId' = IF wasIdle THEN base ELSE currentMessageId
  /\ SetH(DispatchStarted(Cur, wasIdle))
  /\ guardedTurn' = IF wasIdle /\ isHandsfreeActive /\ calls[key[1]].hf
                      THEN key[1] ELSE guardedTurn
  /\ UNCHANGED <<blockedTurn, roundTrip, chunked, lateRearm>>

\* maybeStartNext after `await ensurePlaybackReady()`: take the guard, shift
\* the queue, create the node; on an idle pipeline with a stream on the
\* element, await el.play() before starting the node.
MsnCont ==
  /\ MicroHead("msn", "cont")
  /\ LET t == Head(microQ) IN
     IF ~t.ok
       THEN /\ microQ' = Tail(microQ)
            /\ UNCHANGED <<qVars, playWait, startOrder, hVars, guardedTurn, blockedTurn, roundTrip, chunked, lateRearm>>
     ELSE IF playQueue = <<>>
       THEN \* shift() yields undefined: the destructuring throws
            /\ isDequeuing' = TRUE
            /\ microQ' = Tail(microQ)
            /\ UNCHANGED <<playQueue, currentNode, isPlaying,
                           currentMessageId, nodes, playWait, startOrder,
                           hVars, guardedTurn, blockedTurn, roundTrip, chunked, lateRearm>>
     ELSE LET item == Head(playQueue)
              wasIdle == currentNode = NoKey
              node == [st |-> "created", base |-> item.base, hf |-> item.hf,
                       last |-> item.last, cb |-> item.cb]
              ns == [nodes EXCEPT ![item.key] = node]
          IN /\ isDequeuing' = TRUE
             /\ playQueue' = Tail(playQueue)
             /\ currentNode' = item.key
             /\ microQ' = Tail(microQ)
             /\ IF wasIdle /\ ~isAndroid
                  THEN /\ playWait' = Append(playWait,
                            [At(t, "start") EXCEPT !.key = item.key, !.idle = TRUE])
                       /\ nodes' = ns
                       /\ UNCHANGED <<isPlaying, currentMessageId, startOrder,
                                      hVars, guardedTurn, blockedTurn, roundTrip, chunked, lateRearm>>
                  ELSE /\ StartNode(item.key, wasIdle, item.base, ns)
                       /\ UNCHANGED playWait
  /\ UNCHANGED <<pipeVars, cache, calls, resumeWait, hfRest, enqOrder, stops,
                 interrupts, completeSignals>>

\* maybeStartNext after `await el.play()`.
MsnStart ==
  /\ MicroHead("msn", "start")
  /\ LET t == Head(microQ) IN
     StartNode(t.key, t.idle, nodes[t.key].base, nodes)
  /\ microQ' = Tail(microQ)
  /\ UNCHANGED <<pipeVars, cache, playQueue, isDequeuing, currentNode, calls,
                 resumeWait, playWait, hfRest, enqOrder, stops, interrupts,
                 completeSignals>>

\* An onended that signals completion for every turn: the faulty variant
\* against which C26 is tested.
CompleteDueForAnyTurn(n, pq) == pq = <<>>

\* node.onended sets the timer that dispatches "tts-oncomplete": the queue
\* is empty and the item of the node n was pushed with isHandsfree.
CompleteDue(n, pq) == pq = <<>> /\ n.hf

\* node.onended: the buffer has played out, or stop(0) took effect.  The
\* context renders (and so ends nodes) only while it is running.
NodeEnded(key) ==
  /\ MacroReady
  /\ nodes[key].st \in {"playing", "stopped"}
  /\ ctxState = "running"
  /\ LET n == nodes[key]
         t1 == IF n.last /\ n.cb THEN <<Timer("cb", 50, key[1])>> ELSE <<>>
         t2 == IF CompleteDue(n, playQueue)
                 THEN <<Timer("oncomplete", 50, key[1])>> ELSE <<>>
     IN /\ nodes' = [nodes EXCEPT ![key] = [@ EXCEPT !.st = "ended"]]
        /\ currentNode' = IF currentNode = key THEN NoKey ELSE currentNode
        /\ timers' = timers \o t1 \o t2
        /\ isPlaying' = IF playQueue = <<>> THEN FALSE ELSE isPlaying
        /\ currentMessageId' = IF playQueue = <<>> THEN 0 ELSE currentMessageId
        /\ isDequeuing' = FALSE
        /\ microQ' = <<MsnTask("invoke")>>
  /\ UNCHANGED <<pipeVars, cache, playQueue, calls, resumeWait, playWait,
                 isRecording, isLoading, suppressVAD, vadArmed, blockPlayback,
                 vadStopRef, vads, mediaRecorderRef, recs, hfRest, histVars>>

\* teardownPipeline(): stop(0) on the current node (it throws, caught, on a
\* node that was never started), drop the queue, release the guard.
Teardown ==
  /\ nodes' = IF currentNode # NoKey /\ nodes[currentNode].st = "playing"
                THEN [nodes EXCEPT ![currentNode] = [@ EXCEPT !.st = "stopped"]]
                ELSE nodes
  /\ currentNode' = NoKey
  /\ playQueue' = <<>>
  /\ isDequeuing' = FALSE
  /\ isPlaying' = FALSE
  /\ currentMessageId' = 0

\* stopTTS() called directly
StopTTS ==
  /\ MacroReady
  /\ stops < MaxStops
  /\ Teardown
  /\ stops' = stops + 1
  /\ calls' = [c \in Calls |-> IF calls[c].pc = "idle" THEN calls[c]
                                ELSE [calls[c] EXCEPT !.cut = TRUE]]
  /\ UNCHANGED <<pipeVars, cache, waitVars, hVars, hfRest, enqOrder,
                 startOrder, interrupts, completeSignals, guardedTurn, blockedTurn, roundTrip, chunked, lateRearm>>

\* useHandsfree, the effect on [isPlaying, isRecording]: while playback is
\* blocked until the first recording, a recording lifts the block and a
\* playback is stopped in favour of the VAD.
BlockEffect ==
  /\ EffectReady
  /\ BlockPending
  /\ seen' = <<isPlaying, isRecording>>
  /\ IF blockPlayback /\ ~isRecording /\ isPlaying
       THEN LET h == [Cur EXCEPT !.blockPlayback = FALSE, !.suppressVAD = FALSE]
            IN /\ CanArm(h)
               /\ Teardown
               /\ SetH(StartVADInternal(h))
               /\ blockedTurn' = guardedTurn
               /\ UNCHANGED <<guardedTurn, roundTrip, chunked, lateRearm>>
       ELSE /\ SetH([Cur EXCEPT !.blockPlayback = IF isRecording THEN FALSE ELSE @])
            /\ UNCHANGED <<qVars, guardedTurn, blockedTurn, roundTrip, chunked, lateRearm>>
  /\ UNCHANGED <<pipeVars, cache, calls, waitVars, isHandsfreeActive,
                 recStarts, upVars, chatVars, acts, enqOrder, startOrder,
                 stops, interrupts, completeSignals>>

\* A setTimeout callback that dispatches "tts-oncomplete": the caller's
\* onComplete (the one useChat passes) or the pipeline's own.
TimerComplete(i) ==
  /\ MacroReady
  /\ CanFire(i)
  /\ timers[i].kind \in {"cb", "oncomplete"}
  /\ timers' = DispatchComplete(RemoveAt(timers, i), timers[i].c)
  /\ completeSignals' = [completeSignals EXCEPT ![timers[i].c] = @ + 1]
  /\ UNCHANGED <<ttsVars, waitVars, isRecording, isLoading, suppressVAD,
                 vadArmed, blockPlayback, vadStopRef, vads, mediaRecorderRef,
                 recs, hfRest, enqOrder, startOrder, stops, interrupts,
                 guardedTurn, blockedTurn, roundTrip, chunked, lateRearm>>

\* The 300 ms timer of handleTTSComplete fires.
TimerDebounce(i) ==
  /\ MacroReady
  /\ CanFire(i)
  /\ timers[i].kind = "debounce"
  /\ LET h == [Cur EXCEPT !.timers = RemoveAt(timers, i)]
     IN /\ CanArm(h)
        /\ SetH(Debounced(h))
  /\ guardedTurn' = IF guardedTurn = timers[i].c THEN 0 ELSE guardedTurn
  /\ roundTrip' = IF timers[i].c > roundTrip.from THEN NoTrip ELSE roundTrip
  /\ lateRearm' = (lateRearm \/ timers[i].act < acts)
  /\ UNCHANGED <<blockedTurn, chunked>>
  /\ UNCHANGED <<ttsVars, waitVars, hfRest, enqOrder, startOrder, stops,
                 interrupts, completeSignals>>

\* ----------------------------------------------------- handsfree on / off
\* setIsHandsfreeActiveWrapped(true) and the effect on isHandsfreeActive
Activate ==
  /\ MacroReady
  /\ ~isHandsfreeActive
  /\ acts < MaxActs
  /\ LET h == [Cur EXCEPT !.blockPlayback = TRUE, !.suppressVAD = FALSE]
     IN /\ CanArm(h)
        /\ SetH(StartVADInternal(h))
  /\ isHandsfreeActive' = TRUE
  /\ acts' = acts + 1
  /\ UNCHANGED <<ttsVars, waitVars, seen, recStarts, upVars, chatVars,
                 histVars>>

\* setIsHandsfreeActiveWrapped(false) (mic button, tab hidden, pagehide,
\* beforeunload), whatever the state: the block is cleared and stopTTS()
\* called; if handsfree was on, the effect on isHandsfreeActive and the
\* reset effect of useChat follow.
Deactivate ==
  /\ MacroReady
  /\ Teardown
  /\ isHandsfreeActive' = FALSE
  /\ IF isHandsfreeActive
       THEN /\ SetH(TurnedOff([Cur EXCEPT !.blockPlayback = FALSE]))
            /\ ttsStartedRef' = FALSE
            /\ guardedTurn' = 0
            /\ roundTrip' = NoTrip
       ELSE \* the state does not change: no effect runs
            /\ SetH([Cur EXCEPT !.blockPlayback = FALSE])
            /\ UNCHANGED <<ttsStartedRef, guardedTurn, roundTrip>>
  /\ UNCHANGED <<pipeVars, cache, calls, waitVars, seen, recStarts, upVars,
                 isStreaming, streamingMessageId, msgs, acts, enqOrder,
                 startOrder, stops,
                 interrupts, completeSignals, blockedTurn, chunked, lateRearm>>

\* ------------------------------------------------------------- the VAD
\* init() of closure v: getUserMedia settles.  A closure stopped meanwhile
\* still builds its stream and context, and its first frame returns.
VadInit(v, ok) ==
  /\ MacroReady
  /\ vads[v].st = "init"
  /\ vads' = [vads EXCEPT ![v] =
       IF ok THEN [@ EXCEPT !.st = IF vads[v].stopped THEN "leaked" ELSE "running"]
       ELSE IF @.stopped THEN NoVad ELSE [@ EXCEPT !.st = "failed"]]
  /\ UNCHANGED <<ttsVars, waitVars, isRecording, isLoading, suppressVAD,
                 vadArmed, blockPlayback, vadStopRef, mediaRecorderRef, recs,
                 timers, hfRest, histVars>>

UsedRecs == Cardinality({r \in Recs : recs[r].st # "none"})

PendingManual == Len(SelectSeq(timers, LAMBDA t : t.kind = "manual"))

\* The model has a recorder to give to a further recording, fewer than n
\* microphone requests for a recorder being pending.
RecCapacityFor(n) ==
  /\ UsedRecs + recStarts.vad + recStarts.manual + PendingManual < MaxRecs
  /\ recStarts.vad + recStarts.manual + PendingManual < n

RecCapacity == RecCapacityFor(MaxPending)

\* An onStart guard that does not read isPlayingRef: the faulty variant
\* against which C5 is tested.
OnStartGuardIgnoringPlayback ==
  ~(suppressVAD \/ isLoading \/ ~isHandsfreeActive \/ Recording(Cur))

\* The guard of startVADInternal's onStart
OnStartGuard ==
  ~(suppressVAD \/ isPlaying \/ isLoading \/ ~isHandsfreeActive
    \/ Recording(Cur))

\* A loop() that calls onStart() on every loud frame: the faulty variant
\* against which C13 is tested.
LoudFrameAlwaysStarting(vd) ==
  [vd EXCEPT !.speaking = TRUE, !.cbs = <<@[2], "start">>]

\* loop() on a loud frame, for the closure vd:
\* `if (!isSpeaking) { isSpeaking = true; onStart(); }`
LoudFrame(vd) ==
  [vd EXCEPT !.speaking = TRUE,
             !.cbs = IF vd.speaking THEN @ ELSE <<@[2], "start">>]

\* The callback of the silence timer tests `isSpeaking && !stopped`.
SilenceFires(vd) == vd.speaking /\ ~vd.stopped /\ vd.st = "running"

\* The callback of the silence timer, for the closure vd:
\* `isSpeaking = false; onStop();`
SilenceElapsed(vd) ==
  IF SilenceFires(vd)
    THEN [vd EXCEPT !.speaking = FALSE, !.cbs = <<@[2], "stop">>]
    ELSE vd

\* A loop() without `if (stopped) return`: the faulty variant against
\* which C39 is tested.
LoopRunsThoughStopped(vd) == vd.st \in {"running", "leaked"}

\* A loop that runs whether or not init() acquired the microphone: the
\* faulty variant against which C30 is tested.
LoopRunsAfterFailure(vd) == vd.st \in {"running", "failed"}

\* loop() is scheduled for the closure vd: init() reached
\* requestAnimationFrame(loop) and stop() has not been called.
LoopRuns(vd) == vd.st = "running"

\* loop() of closure v on a frame with rms > volumeThreshold: onStart() if
\* not speaking, then the silence timer is set anew.  onStart calls
\* getUserMedia if its guard passes; n bounds the requests pending.
VadLoudWithin(v, n) ==
  /\ MacroReady
  /\ LoopRuns(vads[v])
  /\ LET pass == ~vads[v].speaking /\ OnStartGuard
     IN /\ pass => RecCapacityFor(n)
        /\ recStarts' = IF pass THEN [recStarts EXCEPT !.vad = @ + 1]
                                ELSE recStarts
  /\ vads' = [vads EXCEPT ![v] = LoudFrame(@)]
  /\ timers' = Append(NoSilence(timers, v), Timer("silence", 2000, v))
  /\ UNCHANGED <<ttsVars, waitVars, isRecording, isLoading, suppressVAD,
                 vadArmed, blockPlayback, vadStopRef, mediaRecorderRef, recs,
                 isHandsfreeActive, seen, upVars, chatVars, acts, histVars>>

\* A loud frame, at most MaxPending microphone requests being pending
VadLoud(v) == VadLoudWithin(v, MaxPending)

\* The number of playTTS calls begun so far
BegunCalls == Cardinality({c \in Calls : calls[c].pc # "idle"})

\* The silence timer of closure v fires: if the closure is speaking and not
\* stopped, onStop(), that is stopRecordingAndSend().
TimerSilence(i, throws) ==
  /\ MacroReady
  /\ CanFire(i)
  /\ timers[i].kind = "silence"
  /\ LET v == timers[i].c
         h == [Cur EXCEPT !.timers = RemoveAt(timers, i),
                          !.vads = [vads EXCEPT ![v] = SilenceElapsed(@)]]
     IN /\ SetH(IF SilenceFires(vads[v]) THEN StopRecordingAndSend(h, throws)
                                         ELSE h)
        /\ roundTrip' = IF SilenceFires(vads[v]) /\ Recording(Cur)
                          THEN [rec |-> mediaRecorderRef, from |-> BegunCalls]
                          ELSE roundTrip
  /\ UNCHANGED <<ttsVars, waitVars, hfRest, enqOrder, startOrder, stops,
                 interrupts, completeSignals, guardedTurn, blockedTurn,
                 chunked, lateRearm>>

\* ------------------------------------------------------------ recorders
NextRec == UsedRecs + 1

\* getUserMedia for a recorder settles (onStart's, or
\* startManualRecording's): new MediaRecorder, start(), setIsRecording(true).
\* A rejection ends the async function (caught and logged in the manual one).
RecStartResolve(kind, ok) ==
  /\ MacroReady
  /\ recStarts[kind] > 0
  /\ recStarts' = [recStarts EXCEPT ![kind] = @ - 1]
  /\ IF ok
       THEN /\ recs' = [recs EXCEPT ![NextRec] =
                 [st |-> "recording", tracks |-> TRUE, kind |-> kind]]
            /\ mediaRecorderRef' = NextRec
            /\ isRecording' = TRUE
       ELSE UNCHANGED <<recs, mediaRecorderRef, isRecording>>
  /\ UNCHANGED <<ttsVars, waitVars, isLoading, suppressVAD, vadArmed,
                 blockPlayback, vadStopRef, vads, timers, isHandsfreeActive,
                 seen, upVars, chatVars, acts, histVars>>

\* startManualRecording() from `vadStopRef.current?.()` to
\* `await getUserMedia`
ManualAcquire(h) == StopVad(h)

\* The mic button while handsfree is off and nothing is recorded:
\* startManualRecording().  The button is disabled while isLoading.  d is
\* the settle delay, `isMobileUserAgent() ? 60 : 10`, a test of
\* navigator.userAgent, which the platform test of primePipeline need not
\* agree with.
ManualStart(d) ==
  /\ MacroReady
  /\ ~isHandsfreeActive /\ ~isRecording /\ ~isLoading
  /\ RecCapacity
  /\ IF isPlaying
       THEN /\ Teardown
            /\ SetH([Cur EXCEPT !.timers = Append(timers, Timer("manual", d, 0))])
            /\ UNCHANGED <<recStarts, guardedTurn, blockedTurn, roundTrip, chunked, lateRearm>>
       ELSE /\ SetH(ManualAcquire(Cur))
            /\ recStarts' = [recStarts EXCEPT !.manual = @ + 1]
            /\ UNCHANGED <<qVars, guardedTurn, blockedTurn, roundTrip, chunked, lateRearm>>
  /\ UNCHANGED <<pipeVars, cache, calls, waitVars, isHandsfreeActive, seen,
                 upVars, chatVars, acts, enqOrder, startOrder, stops,
                 interrupts, completeSignals>>

\* startManualRecording() after its settle delay
TimerManual(i) ==
  /\ MacroReady
  /\ CanFire(i)
  /\ timers[i].kind = "manual"
  /\ SetH(ManualAcquire([Cur EXCEPT !.timers = RemoveAt(timers, i)]))
  /\ recStarts' = [recStarts EXCEPT !.manual = @ + 1]
  /\ UNCHANGED <<ttsVars, waitVars, isHandsfreeActive, seen, upVars, chatVars,
                 acts, histVars>>

\* stopManualRecording()
StopManualRecording(h, throws) ==
  IF h.mediaRecorderRef = 0 THEN h
  ELSE IF h.recs[h.mediaRecorderRef].st # "recording" /\ throws THEN h
  ELSE [h EXCEPT !.recs = RecStopped(h.recs, h.mediaRecorderRef),
                 !.isRecording = FALSE]

\* The mic button while handsfree is off and a recording is shown
ManualStop(throws) ==
  /\ MacroReady
  /\ ~isHandsfreeActive /\ isRecording /\ ~isLoading
  /\ SetH(StopManualRecording(Cur, throws))
  /\ UNCHANGED <<ttsVars, waitVars, hfRest, histVars>>

\* The stop event of recorder r: onstop sets isRecording false and calls
\* sendAudioToAPI, which clears emittedRef and starts the upload.
RecOnStop(r) ==
  /\ MacroReady
  /\ recs[r].st = "stopping"
  /\ recs' = [recs EXCEPT ![r] = [@ EXCEPT !.st = "inactive"]]
  /\ isRecording' = FALSE
  /\ emittedRef' = FALSE
  /\ uploads' = [uploads EXCEPT ![r] = [NoUpload EXCEPT !.pc = "fetch"]]
  /\ UNCHANGED <<ttsVars, waitVars, isLoading, suppressVAD, vadArmed,
                 blockPlayback, vadStopRef, vads, mediaRecorderRef, timers,
                 isHandsfreeActive, seen, recStarts, emissions, doneSeen,
                 streams, chatVars, acts, histVars>>

\* ------------------------------------------------------- sendAudioToAPI
\* A non-blank line of a read: a "data: " line holding a
\* transcript.text.delta event, a usage event or [DONE], or anything else
\* (no "data: " prefix, JSON that does not parse, another event).
Delta(tok) == [kind |-> "delta", tok |-> tok]
UsageLine == [kind |-> "usage", tok |-> "u"]
DoneLine == [kind |-> "done", tok |-> ""]
JunkLine == [kind |-> "junk", tok |-> ""]

Lines == {Delta("a"), Delta(" "), UsageLine, DoneLine, JunkLine}

Reads(n) == UNION {[1..k -> Lines] : k \in 0..n}

\* fullText.trim() is not empty
HasText(text) == \E i \in 1..Len(text) : text[i] # " "

FailureText == <<"Failed to process audio">>

\* A line loop without the emittedRef test and without the break at
\* `[DONE]`: the faulty variant against which C10 is tested.
RECURSIVE ProcessLinesUnguarded(_, _)
ProcessLinesUnguarded(ls, s) ==
  IF ls = <<>> THEN s
  ELSE LET l == Head(ls) IN
    IF l.kind = "done"
      THEN ProcessLinesUnguarded(Tail(ls),
             IF HasText(s.text)
               THEN [s EXCEPT !.emitted = TRUE, !.done = TRUE,
                              !.out = Append(@, [text |-> s.text, usage |-> s.usage])]
               ELSE [s EXCEPT !.done = TRUE])
    ELSE IF l.kind = "delta"
      THEN ProcessLinesUnguarded(Tail(ls), [s EXCEPT !.text = Append(@, l.tok)])
    ELSE IF l.kind = "usage"
      THEN ProcessLinesUnguarded(Tail(ls), [s EXCEPT !.usage = l.tok])
    ELSE ProcessLinesUnguarded(Tail(ls), s)

\* The `for (const line of lines)` loop over one read.  s holds fullText,
\* usage, emittedRef, the onNewTranscription calls made and doneReading.
RECURSIVE ProcessLines(_, _)
ProcessLines(ls, s) ==
  IF ls = <<>> THEN s
  ELSE LET l == Head(ls) IN
    IF l.kind = "done"
      THEN IF ~s.emitted /\ HasText(s.text)
             THEN [s EXCEPT !.emitted = TRUE, !.done = TRUE,
                            !.out = Append(@, [text |-> s.text, usage |-> s.usage])]
             ELSE [s EXCEPT !.done = TRUE]
    ELSE IF l.kind = "delta"
      THEN ProcessLines(Tail(ls), [s EXCEPT !.text = Append(@, l.tok)])
    ELSE IF l.kind = "usage"
      THEN ProcessLines(Tail(ls), [s EXCEPT !.usage = l.tok])
    ELSE ProcessLines(Tail(ls), s)

\* onNewTranscription(text, usage) for each payload of out, made by upload
\* u: handleNewTranscription up to `await fetch("/api/chat")`, and the reset
\* effect of useChat once isStreaming is true.
RECURSIVE NewMessages(_, _)
NewMessages(ms, n) ==
  IF n = 0 THEN ms
  ELSE NewMessages(Append(ms, NewMessage(Len(ms) + 1)), n - 1)

Emit(u, out) ==
  /\ emissions' = emissions \o
       [i \in 1..Len(out) |-> [u |-> u, text |-> out[i].text, usage |-> out[i].usage]]
  /\ msgs' = NewMessages(msgs, Len(out))
  /\ isStreaming' = (isStreaming \/ out # <<>>)
  /\ streamingMessageId' = IF out = <<>> THEN streamingMessageId
                                          ELSE Len(msgs) + Len(out)
  /\ ttsStartedRef' = (ttsStartedRef /\ out = <<>>)

\* The finally block
FinallyLoading == IF ~isHandsfreeActive THEN FALSE ELSE isLoading

\* A catch block that makes no call: the faulty variant against which C12
\* is tested.
FailureSwallowed == <<>>

\* The catch block: onNewTranscription("Failed to process audio")
Failure == <<[text |-> FailureText, usage |-> ""]>>

\* sendAudioToAPI has returned: its locals are gone.
Returned == [NoUpload EXCEPT !.pc = "done"]

\* sendAudioToAPI has returned by way of its catch block, which caught err.
Caught(err) == [Returned EXCEPT !.err = err]

upFrame == <<ttsVars, waitVars, isRecording, suppressVAD, vadArmed,
             blockPlayback, vadStopRef, vads, mediaRecorderRef, recs, timers,
             isHandsfreeActive, seen, recStarts, acts, histVars>>

\* `await fetch("/api/transcribe")` settles: a response with a body, a
\* response that is not ok, one without a body, or a rejection.
UploadFetch(u, res) ==
  /\ MacroReady
  /\ uploads[u].pc = "fetch"
  /\ IF res = "ok"
       THEN /\ uploads' = [uploads EXCEPT ![u] = [@ EXCEPT !.pc = "read"]]
            /\ UNCHANGED <<emissions, chatVars, isLoading>>
       ELSE /\ uploads' = [uploads EXCEPT ![u] = Caught(res)]
            /\ Emit(u, Failure)
            /\ isLoading' = FinallyLoading
  /\ UNCHANGED <<upFrame, emittedRef, doneSeen, streams>>

\* The body of the `while (true)` loop for a read whose non-blank lines
\* are ls, up to the return of sendAudioToAPI if `[DONE]` is among them.
ReadLines(u, ls) ==
  /\ LET s == ProcessLines(ls, [text |-> uploads[u].text, usage |-> uploads[u].usage,
                               emitted |-> emittedRef, out |-> <<>>, done |-> FALSE])
     IN /\ uploads' = [uploads EXCEPT ![u] =
             [pc |-> IF s.done THEN "done" ELSE "read", text |-> s.text,
              usage |-> s.usage, reads |-> @.reads + 1, err |-> ""]]
        /\ emittedRef' = s.emitted
        /\ Emit(u, s.out)
        /\ isLoading' = IF s.done THEN FinallyLoading ELSE isLoading
  /\ doneSeen' = [doneSeen EXCEPT ![u] = @ + Len(SelectSeq(ls, LAMBDA l : l = DoneLine))]
  /\ UNCHANGED upFrame

\* `await reader.read()` yields a chunk made of whole lines, ls.
UploadRead(u, ls) ==
  /\ MacroReady
  /\ uploads[u].pc = "read"
  /\ uploads[u].reads < MaxReads
  /\ ReadLines(u, ls)
  /\ UNCHANGED streams

\* `await reader.read()` yields done, or rejects.
UploadEnd(u, ok) ==
  /\ MacroReady
  /\ uploads[u].pc = "read"
  /\ uploads' = [uploads EXCEPT ![u] = IF ok THEN Returned ELSE Caught("read")]
  /\ Emit(u, IF ok THEN <<>> ELSE Failure)
  /\ isLoading' = FinallyLoading
  /\ UNCHANGED <<upFrame, emittedRef, doneSeen, streams>>


\* ------------------------------------------- the response body, in reads
\* The events a stream holds ahead of its `[DONE]` line
StreamEvents == {Delta("a"), Delta(" "), UsageLine}

\* A body that follows the protocol: at most MaxEvents events, then
\* `data: [DONE]`.
Bodies ==
  {Append(evs, DoneLine) : evs \in UNION {[1..k -> StreamEvents] : k \in 0..MaxEvents}}

\* The characters of the line `data: <payload>\n` of event e: a proper
\* prefix of the line, the rest of the line, and the newline.
LineChars(e) ==
  <<[ev |-> e, part |-> "head"], [ev |-> e, part |-> "tail"],
    [ev |-> e, part |-> "nl"]>>

RECURSIVE Serialize(_)
Serialize(evs) ==
  IF evs = <<>> THEN <<>> ELSE LineChars(Head(evs)) \o Serialize(Tail(evs))

\* chunk.split("\n").filter((line) => line.trim()); cur is the line being
\* gathered.
RECURSIVE SplitChunk(_, _)
SplitChunk(chunk, cur) ==
  LET line == IF cur = <<>> THEN <<>> ELSE <<cur>> IN
  IF chunk = <<>> THEN line
  ELSE IF Head(chunk).part = "nl"
    THEN line \o SplitChunk(Tail(chunk), <<>>)
  ELSE SplitChunk(Tail(chunk), Append(cur, Head(chunk)))

\* What the line loop makes of one line of a chunk.  A whole line is its
\* event.  A line cut short by the end of the chunk either lacks the
\* "data: " prefix or holds a payload that is neither "[DONE]" nor JSON
\* that parses; the rest of a line, at the start of the next chunk, lacks
\* the prefix: both are skipped.
ParseLine(line) ==
  IF Len(line) = 2 /\ line[1].part = "head" /\ line[2].part = "tail"
    THEN line[1].ev
    ELSE JunkLine

ChunkLines(chunk) ==
  LET ls == SplitChunk(chunk, <<>>)
  IN [i \in 1..Len(ls) |-> ParseLine(ls[i])]

\* `await fetch("/api/transcribe")` settles with a response whose body
\* will carry the events evs.
UploadFetchStream(u, evs) ==
  /\ MacroReady
  /\ uploads[u].pc = "fetch"
  /\ uploads' = [uploads EXCEPT ![u] = [@ EXCEPT !.pc = "read"]]
  /\ streams' = [streams EXCEPT ![u] = [sent |-> Serialize(evs), pos |-> 0]]
  /\ UNCHANGED <<upFrame, emittedRef, emissions, doneSeen, chatVars, isLoading>>

\* `await reader.read()` yields the next n characters of the body.
UploadReadChunk(u, n) ==
  /\ MacroReady
  /\ uploads[u].pc = "read"
  /\ n >= 1
  /\ streams[u].pos + n <= Len(streams[u].sent)
  /\ ReadLines(u, ChunkLines(SubSeq(streams[u].sent, streams[u].pos + 1,
                                    streams[u].pos + n)))
  /\ streams' = [streams EXCEPT ![u] = [@ EXCEPT !.pos = @ + n]]

\* `await reader.read()` yields done: the body has been read to its end.
UploadReadDone(u) ==
  /\ streams[u].sent # <<>>
  /\ streams[u].pos = Len(streams[u].sent)
  /\ UploadEnd(u, TRUE)
\* ------------------------------------------------ handleNewTranscription
\* The catch block: the text of the message becomes "Error getting
\* response", which chunkTextForTTS does not split.  setMessages maps over
\* the messages there are: a deleted message gets no text.
ChatError(m) ==
  IF m.shown THEN [m EXCEPT !.pc = "done", !.text = TRUE, !.rem = FALSE]
  ELSE [m EXCEPT !.pc = "done"]

\* handleNewTranscription after `await fetch("/api/chat")` for message i:
\* the response has a body to read ("ok"; response.ok is not tested), it
\* has none ("nobody": straight to the finally block), or the fetch is
\* rejected ("reject": the catch block, then finally).  finally:
\* setIsStreaming(false); setStreamingMessageId(null).
ChatFetch(i, res) ==
  /\ MacroReady
  /\ i \in 1..Len(msgs)
  /\ msgs[i].pc = "streaming"
  /\ msgs' = [msgs EXCEPT ![i] =
       IF res = "ok" THEN [@ EXCEPT !.pc = "reading"]
       ELSE IF res = "reject" THEN ChatError(@)
       ELSE [@ EXCEPT !.pc = "done"]]
  /\ isStreaming' = IF res = "ok" THEN isStreaming ELSE FALSE
  /\ streamingMessageId' = IF res = "ok" THEN streamingMessageId ELSE 0
  /\ UNCHANGED <<ttsVars, waitVars, hVars, isHandsfreeActive, seen, recStarts,
                 upVars, ttsStartedRef, acts, histVars>>

\* handleNewTranscription after an `await reader.read()` that brings delta
\* content for message i: setMessages appends it to the text, which
\* chunkTextForTTS then splits ("long") or not ("short"); a text that is
\* split stays so when it grows.
ChatRead(i, content) ==
  /\ MacroReady
  /\ i \in 1..Len(msgs)
  /\ msgs[i].pc = "reading"
  /\ msgs' = [msgs EXCEPT ![i] =
       IF @.shown
         THEN [@ EXCEPT !.text = TRUE, !.rem = (@ \/ content = "long")]
         ELSE @]
  /\ UNCHANGED <<ttsVars, waitVars, hVars, isHandsfreeActive, seen, recStarts,
                 upVars, ttsStartedRef, isStreaming, streamingMessageId, acts,
                 histVars>>

\* handleNewTranscription after the `await reader.read()` that ends the
\* stream of message i: done (ok), or the read throws and the catch block
\* replaces the text.  finally: setIsStreaming(false) and
\* setStreamingMessageId(null), also while another request is still being
\* read.
ChatEnd(i, ok) ==
  /\ MacroReady
  /\ i \in 1..Len(msgs)
  /\ msgs[i].pc = "reading"
  /\ msgs' = [msgs EXCEPT ![i] =
       IF ok THEN [@ EXCEPT !.pc = "done"] ELSE ChatError(@)]
  /\ isStreaming' = FALSE
  /\ streamingMessageId' = 0
  /\ UNCHANGED <<ttsVars, waitVars, hVars, isHandsfreeActive, seen, recStarts,
                 upVars, ttsStartedRef, acts, histVars>>

\* The prop isStreaming of the bubble of message i
BubbleStreaming(i) == isStreaming /\ msgs[i].id = streamingMessageId

\* confirmDelete(true) for the message i, after its DELETE request:
\* setMessages(prev => prev.filter(m => m.id !== id)).  A bubble offers
\* the deletion unless it is the streaming one; the request of a deleted
\* message runs on.
DeleteMessage(i) ==
  /\ MacroReady
  /\ i \in 1..Len(msgs)
  /\ msgs[i].shown
  /\ ~BubbleStreaming(i)
  /\ msgs' = [msgs EXCEPT ![i] =
       [@ EXCEPT !.shown = FALSE, !.text = FALSE, !.rem = FALSE,
                 !.loading = FALSE]]
  /\ UNCHANGED <<ttsVars, waitVars, hVars, isHandsfreeActive, seen, recStarts,
                 upVars, ttsStartedRef, isStreaming, streamingMessageId, acts,
                 histVars>>

\* A click on the TTS button of the bubble of message i, which every
\* assistant bubble shows, enabled unless its isTTSLoading is set.
\* onPlayTTS of the latest render: handleStopTTS(), which is stopTTS, if
\* `currentPlayingId === message.id`; and else setIsTTSLoading(true) and
\* handlePlayTTS(id, text), that is playTTS(id, text, false, undefined),
\* with the text the message has by then.
Replay(c, i) ==
  /\ i \in 1..Len(msgs)
  /\ msgs[i].shown
  /\ ~msgs[i].loading
  /\ IF currentMessageId = msgs[i].id
       THEN StopTTS
       ELSE /\ PlayTTSCall(c, msgs[i].id, msgs[i].rem)
            /\ msgs' = [msgs EXCEPT ![i] = [@ EXCEPT !.loading = TRUE]]
            /\ UNCHANGED <<isHandsfreeActive, seen, recStarts, upVars,
                           ttsStartedRef, isStreaming, streamingMessageId,
                           acts>>

\* ChatBubble, the effect on isPlayingTTS: `if (isPlayingTTS)
\* setIsTTSLoading(false)`.
LoadingEffect ==
  /\ EffectReady
  /\ LoadingPending
  /\ msgs' = [i \in 1..Len(msgs) |->
       IF msgs[i].id = currentMessageId THEN [msgs[i] EXCEPT !.loading = FALSE]
       ELSE msgs[i]]
  /\ UNCHANGED <<ttsVars, waitVars, hVars, isHandsfreeActive, seen, recStarts,
                 upVars, ttsStartedRef, isStreaming, streamingMessageId, acts,
                 histVars>>

\* -------------------------------------------- useChat, auto-play effect
\* The effect, and handlePlayTTS(id, text, true, cb) up to `await prime()`,
\* whose first step is `await primePipeline()`.
AutoPlay(c) ==
  /\ EffectReady
  /\ AutoPlayPending
  /\ FirstIdle(c)
  /\ ttsStartedRef' = TRUE
  /\ SetH(PlaybackPrepared(Cur))
  /\ calls' = [calls EXCEPT ![c] =
       [@ EXCEPT !.pc = "prepare", !.msg = msgs[LastAssistant].id,
                 !.rem = msgs[LastAssistant].rem, !.hf = TRUE, !.cb = TRUE]]
  /\ CallPrime(HPlayTask(c, "pr1", "pr1"), microQ)
  /\ UNCHANGED <<isAndroid, startedPull, cache, qVars, isHandsfreeActive, seen,
                 recStarts, upVars, isStreaming, streamingMessageId, msgs,
                 acts, histVars>>

\* prime() after `await primePipeline()`: `await ensurePlaybackReady()`
HPlayPr1 ==
  /\ MicroHead("hplay", "pr1")
  /\ CallPrime([Head(microQ) EXCEPT !.ret = "epr1"], Tail(microQ))
  /\ UNCHANGED <<isAndroid, startedPull, cache, qVars, calls, hVars, hfRest,
                 histVars>>

\* handlePlayTTS after `await prime()`: the settle delay d,
\* `isMobileUserAgent() ? 60 : 10`, a test of navigator.userAgent, which
\* the platform test of primePipeline need not agree with
HPlayCont(d) ==
  /\ MicroHead("hplay", "cont")
  /\ timers' = Append(timers, Timer("settle", d, Head(microQ).c))
  /\ microQ' = Tail(microQ)
  /\ UNCHANGED <<ttsVars, resumeWait, playWait, isRecording, isLoading,
                 suppressVAD, vadArmed, blockPlayback, vadStopRef, vads,
                 mediaRecorderRef, recs, hfRest, histVars>>

\* handlePlayTTS after the settle delay: playTTS(id, text, true, cb).  The
\* playTTS of the render of the effect sees a currentMessageId other than id.
TimerSettle(i) ==
  /\ MacroReady
  /\ CanFire(i)
  /\ timers[i].kind = "settle"
  /\ LET c == timers[i].c
     IN PlayTTSEntry(c, calls[c].msg, calls[c].rem, TRUE, TRUE, FALSE, <<>>)
  /\ timers' = RemoveAt(timers, i)
  /\ UNCHANGED <<isAndroid, startedPull, cache, qVars, isRecording, isLoading,
                 suppressVAD, vadArmed, blockPlayback, vadStopRef, vads,
                 mediaRecorderRef, recs, hfRest, histVars>>

\* ------------------------------------------------------- specifications
\* The steps of the playback pipeline
\* The steps of a playback of one chunk
FirstChunkStep ==
  \/ MicroPP1 \/ MicroPP2 \/ MicroEPR1 \/ MicroEPR2
  \/ \E ok \in BOOLEAN : ResumeResolve(ok)
  \/ PlayResolve
  \/ PlayCont
  \/ \E c \in Calls, idx \in {0, 1}, res \in FetchResults : FetchResolve(c, idx, res)
  \/ PlayIntro \/ PlayEnq1
  \/ PlayCost \/ PlayChars \/ PlayLatency
  \/ MsnInvoke \/ MsnCont \/ MsnStart
  \/ \E k \in Keys : NodeEnded(k)
  \/ BlockEffect

PlayerStep == FirstChunkStep \/ PlayRem \/ PlayEnq2

\* The pipeline on its own: playTTS called with distinct turn ids, handsfree
\* off, the browser free to suspend the context.
NextTTS ==
  \/ \E c \in Calls, rem \in BOOLEAN : PlayTTS(c, c, rem)
  \/ PlayerStep
  \/ CtxInterrupt

SpecTTS == Init /\ [][NextTTS]_vars

\* Recording by the mic button, the transcription upload with every
\* response stream of at most MaxReads reads of at most MaxLines lines, and
\* the chat requests of the transcriptions, two of which can be running at
\* once, with the deletion of any message whose bubble offers it.
NextSSE ==
  \/ \E d \in {10, 60} : ManualStart(d)
  \/ \E throws \in BOOLEAN : ManualStop(throws)
  \/ \E kind \in {"manual"}, ok \in BOOLEAN : RecStartResolve(kind, ok)
  \/ \E r \in Recs : RecOnStop(r)
  \/ \E u \in Recs, res \in {"ok", "notok", "nobody", "reject"} : UploadFetch(u, res)
  \/ \E u \in Recs, ls \in Reads(MaxLines) : UploadRead(u, ls)
  \/ \E u \in Recs, ok \in BOOLEAN : UploadEnd(u, ok)
  \/ \E i \in 1..Len(msgs) : ChatFetch(i, "ok")
  \/ \E i \in 1..Len(msgs) : ChatRead(i, "short")
  \/ \E i \in 1..Len(msgs), ok \in BOOLEAN : ChatEnd(i, ok)
  \/ \E i \in 1..Len(msgs) : DeleteMessage(i)
  \/ BlockEffect

SpecSSE == Init /\ [][NextSSE]_vars

\* The response streams of the handsfree specification
LoopReads == {<<Delta("a"), DoneLine>>, <<DoneLine>>, <<Delta("a")>>}

\* The handsfree loop of one activation: activation and deactivation, the
\* VAD, the recorder, the upload, the chat reply, its playback, and the
\* timers.
NextHF ==
  \/ acts = 0 /\ Activate
  \/ Deactivate
  \/ \E v \in Vads, ok \in BOOLEAN : VadInit(v, ok)
  \/ \E v \in Vads : VadLoud(v)
  \/ \E kind \in {"vad"}, ok \in BOOLEAN : RecStartResolve(kind, ok)
  \/ \E r \in Recs : RecOnStop(r)
  \/ \E u \in Recs, res \in {"ok", "notok"} : UploadFetch(u, res)
  \/ \E u \in Recs, ls \in LoopReads : UploadRead(u, ls)
  \/ \E u \in Recs, ok \in BOOLEAN : UploadEnd(u, ok)
  \/ \E i \in 1..Len(msgs), res \in {"ok", "nobody", "reject"} : ChatFetch(i, res)
  \/ \E i \in 1..Len(msgs), content \in {"short", "long"} : ChatRead(i, content)
  \/ \E i \in 1..Len(msgs), ok \in BOOLEAN : ChatEnd(i, ok)
  \/ \E i \in 1..Len(msgs) : DeleteMessage(i)
  \/ \E c \in Calls : AutoPlay(c)
  \/ HPlayPr1
  \/ \E d \in {10, 60} : HPlayCont(d)
  \/ \E i \in 1..Len(timers) : TimerSettle(i)
  \/ \E i \in 1..Len(timers) : TimerComplete(i)
  \/ \E i \in 1..Len(timers) : TimerDebounce(i)
  \/ \E i \in 1..Len(timers), throws \in BOOLEAN : TimerSilence(i, throws)
  \/ PlayerStep

SpecHF == Init /\ [][NextHF]_vars

\* The handsfree loop on a restored transcript up to the second speech
\* start: every collaborator but the transcription and TTS services answers
\* well, and the microphone request of a second recorder stays pending.
NextRestored ==
  \/ acts = 0 /\ Activate
  \/ \E v \in Vads : VadInit(v, TRUE)
  \/ \E v \in Vads : VadLoud(v)
  \/ UsedRecs = 0 /\ RecStartResolve("vad", TRUE)
  \/ \E r \in Recs : RecOnStop(r)
  \/ \E u \in Recs : UploadFetch(u, "notok")
  \/ \E i \in 1..Len(msgs) : ChatFetch(i, "ok")
  \/ \E i \in 1..Len(msgs) : ChatRead(i, "long")
  \/ \E i \in 1..Len(msgs) : ChatEnd(i, TRUE)
  \/ \E c \in Calls : AutoPlay(c)
  \/ HPlayPr1
  \/ \E d \in {10, 60} : HPlayCont(d)
  \/ \E i \in 1..Len(timers) : TimerSettle(i)
  \/ \E i \in 1..Len(timers) : TimerComplete(i)
  \/ \E i \in 1..Len(timers) : TimerDebounce(i)
  \/ \E i \in 1..Len(timers) : TimerSilence(i, FALSE)
  \/ PlayerStep

SpecRestored == InitRestored /\ [][NextRestored]_vars

\* One utterance recorded by the mic button and its transcription upload,
\* the response body following the protocol and reaching the reader in
\* reads of any sizes.
NextStream ==
  \/ \E d \in {10, 60} : UsedRecs = 0 /\ ManualStart(d)
  \/ ManualStop(FALSE)
  \/ RecStartResolve("manual", TRUE)
  \/ \E r \in Recs : RecOnStop(r)
  \/ \E u \in Recs, evs \in Bodies : UploadFetchStream(u, evs)
  \/ \E u \in Recs, n \in 1..(3 * (MaxEvents + 1)) : UploadReadChunk(u, n)
  \/ \E u \in Recs : UploadReadDone(u)
  \/ BlockEffect

SpecStream == Init /\ [][NextStream]_vars

\* The microphone: handsfree switched on and off, the VAD, recording by the
\* mic button and by the VAD, with a transcription service that refuses
\* every upload.
NextMic ==
  \/ Activate
  \/ Deactivate
  \/ \E v \in Vads, ok \in BOOLEAN : VadInit(v, ok)
  \/ \E v \in Vads : VadLoud(v)
  \/ \E i \in 1..Len(timers) : TimerSilence(i, FALSE)
  \/ \E d \in {10, 60} : ManualStart(d)
  \/ ManualStop(FALSE)
  \/ \E kind \in {"vad", "manual"}, ok \in BOOLEAN : RecStartResolve(kind, ok)
  \/ \E r \in Recs : RecOnStop(r)
  \/ \E u \in Recs : UploadFetch(u, "notok")
  \/ BlockEffect

SpecMic == Init /\ [][NextMic]_vars

\* One playTTS call whose chunks come with any usage or none.
NextUsage ==
  \/ \E rem \in BOOLEAN : PlayTTS(1, 1, rem)
  \/ \E c \in Calls, idx \in {0, 1}, u \in Usages : FetchResolveUsage(c, idx, u)
  \/ PlayerStep

SpecUsage == Init /\ [][NextUsage]_vars

\* The pipeline with stopTTS called at any point: playTTS called with
\* distinct turn ids, handsfree off.
NextStop ==
  \/ \E c \in Calls, rem \in BOOLEAN : PlayTTS(c, c, rem)
  \/ PlayerStep
  \/ StopTTS

SpecStop == Init /\ [][NextStop]_vars

\* No playTTS call has come from a bubble yet.
NoClickYet == \A c \in Calls : calls[c].pc = "idle" \/ calls[c].hf

\* One handsfree cycle with a refused upload and a reply, one click that
\* plays the bubble of a message, at any time from the moment the bubble is
\* shown, and one click on the playing bubble.
NextReplay ==
  \/ acts = 0 /\ Activate
  \/ \E v \in Vads : VadInit(v, TRUE)
  \/ \E v \in Vads : VadLoud(v)
  \/ UsedRecs = 0 /\ RecStartResolve("vad", TRUE)
  \/ \E r \in Recs : RecOnStop(r)
  \/ \E u \in Recs : UploadFetch(u, "notok")
  \/ \E i \in 1..Len(msgs) : ChatFetch(i, "ok")
  \/ \E i \in 1..Len(msgs), content \in {"short", "long"} : ChatRead(i, content)
  \/ \E i \in 1..Len(msgs) : ChatEnd(i, TRUE)
  \/ \E c \in Calls : AutoPlay(c)
  \/ HPlayPr1
  \/ \E d \in {10, 60} : HPlayCont(d)
  \/ \E i \in 1..Len(timers) : TimerSettle(i)
  \/ \E i \in 1..Len(timers) : TimerComplete(i)
  \/ \E i \in 1..Len(timers) : TimerDebounce(i)
  \/ \E i \in 1..Len(timers) : TimerSilence(i, FALSE)
  \/ \E c \in Calls, i \in 1..Len(msgs) :
       /\ NoClickYet \/ (currentMessageId = msgs[i].id /\ stops = 0)
       /\ Replay(c, i)
  \/ LoadingEffect
  \/ PlayerStep

SpecReplay == Init /\ [][NextReplay]_vars

\* Handsfree switched on, off and on again around one cycle with a refused
\* upload and a reply of one chunk: a re-arm of the VAD that is pending when
\* handsfree is switched falls together with the activation.
NextRearm ==
  \/ Activate
  \/ Deactivate
  \/ \E v \in Vads : VadInit(v, TRUE)
  \/ \E v \in Vads : VadLoud(v)
  \/ UsedRecs = 0 /\ RecStartResolve("vad", TRUE)
  \/ \E r \in Recs : RecOnStop(r)
  \/ \E u \in Recs : UploadFetch(u, "notok")
  \/ \E i \in 1..Len(msgs) : ChatFetch(i, "ok")
  \/ \E i \in 1..Len(msgs) : ChatRead(i, "short")
  \/ \E i \in 1..Len(msgs) : ChatEnd(i, TRUE)
  \/ \E c \in Calls : AutoPlay(c)
  \/ HPlayPr1
  \/ \E d \in {10, 60} : HPlayCont(d)
  \/ \E i \in 1..Len(timers) : TimerSettle(i)
  \/ \E i \in 1..Len(timers) : TimerComplete(i)
  \/ \E i \in 1..Len(timers) : TimerDebounce(i)
  \/ \E i \in 1..Len(timers) : TimerSilence(i, FALSE)
  \/ FirstChunkStep

SpecRearm == Init /\ [][NextRearm]_vars

\* The handsfree loop up to the upload, a microphone request for a recorder
\* staying pending for any time (a permission prompt), so that a second
\* speech-start finds the first recorder not yet created.
NextRecorders ==
  \/ Activate
  \/ Deactivate
  \/ \E v \in Vads : VadInit(v, TRUE)
  \/ \E v \in Vads : VadLoudWithin(v, MaxRecs)
  \/ \E i \in 1..Len(timers) : TimerSilence(i, FALSE)
  \/ \E ok \in BOOLEAN : RecStartResolve("vad", ok)
  \/ \E r \in Recs : RecOnStop(r)
  \/ \E u \in Recs : UploadFetch(u, "notok")
  \/ BlockEffect

SpecRecorders == Init /\ [][NextRecorders]_vars

\* ------------------------------------------------------ chunkTextForTTS
\* A text is a sequence of characters.  `\s` of the regular expression and
\* the white space of trim(): space and line feed stand for the class.
IsSpace(ch) == ch \in {" ", "\n"}

\* The class [.!?] of sentenceEndRegex
IsSentenceEnd(ch) == ch \in {".", "!", "?"}

\* String.prototype.trim()
RECURSIVE TrimStart(_)
TrimStart(t) ==
  IF t # <<>> /\ IsSpace(Head(t)) THEN TrimStart(Tail(t)) ELSE t

RECURSIVE TrimEnd(_)
TrimEnd(t) ==
  IF t # <<>> /\ IsSpace(t[Len(t)]) THEN TrimEnd(SubSeq(t, 1, Len(t) - 1))
  ELSE t

Trim(t) == TrimEnd(TrimStart(t))

\* text.slice(n)
Slice(t, n) == SubSeq(t, n + 1, Len(t))

\* Where /(?<=[.!?])\s+/ matches first in t: the indices of the first and
\* the last character of the leftmost run of white space that follows a
\* sentence end, the run taken whole; <<0, 0>> if there is no match.
FirstMatch(t) ==
  LET starts == {i \in 2..Len(t) : IsSentenceEnd(t[i - 1]) /\ IsSpace(t[i])}
  IN IF starts = {} THEN <<0, 0>>
     ELSE LET i == CHOOSE x \in starts : \A y \in starts : x <= y
              ends == {j \in i..Len(t) : \A k \in i..j : IsSpace(t[k])}
              j == CHOOSE x \in ends : \A y \in ends : y <= x
          IN <<i, j>>

\* text.split(sentenceEndRegex)
RECURSIVE Split(_)
Split(t) ==
  LET m == FirstMatch(t)
  IN IF m = <<0, 0>> THEN <<t>>
     ELSE <<SubSeq(t, 1, m[1] - 1)>> \o Split(Slice(t, m[2]))

\* The greatest length of a text that is not chunked
ShortText == 80

\* A test that sends a text of 80 characters to the sentence splitter: the
\* faulty variant against which C32 is tested.
IsShortBelow(text) == Len(text) < ShortText

\* `text.length <= 80`
IsShort(text) == Len(text) <= ShortText

\* The least length of a first sentence that is an intro by itself
LongSentence == 30

\* chunkTextForTTS(text): <<intro>> or <<intro, remainder>>
chunkTextForTTS(text) ==
  IF IsShort(text) THEN <<text>>
  ELSE
    LET sentences == SelectSeq(Split(text), LAMBDA s : s # <<>>)
        first == IF Len(sentences) >= 1 THEN sentences[1] ELSE <<>>
        second == IF Len(sentences) >= 2 THEN sentences[2] ELSE <<>>
        introChunk == IF Len(first) >= LongSentence THEN first
                      ELSE Trim(first \o <<" ">> \o second)
        remainder == Trim(Slice(text, Len(introChunk)))
    IN IF remainder = <<>> THEN <<introChunk>> ELSE <<introChunk, remainder>>

\* n letters
Letters(n) == [i \in 1..n |-> "a"]

\* The widest run of white space between two sentences, and before the text
MaxSep == 2
MaxLead == 1

\* Runs of white space of at most n characters
Spaces(n) == UNION {[1..k -> {" ", "\n"}] : k \in 0..n}

\* Texts of up to three sentences whose lengths lie on both sides of 30 and
\* whose sums lie on both sides of 80
Texts ==
  {lead \o Letters(a) \o <<p>> \o s1 \o Letters(b) \o <<".">> \o s2 \o Letters(c) :
     lead \in Spaces(MaxLead), a \in {2, 28, 29}, p \in {".", "?"},
     s1 \in Spaces(MaxSep), b \in {0, 47, 48, 49}, s2 \in Spaces(1),
     c \in {0, 1, 30}}

\* The call `chunkTextForTTS(text)` of playTTS, taken by itself: the
\* function keeps no state, so a behaviour chunks one text.
ChunkText(text) ==
  /\ chunked = NoChunks
  /\ chunked' = [text |-> text, chunks |-> chunkTextForTTS(text)]
  /\ UNCHANGED <<ttsVars, hVars, hfRest, waitVars, enqOrder, startOrder,
                 stops, interrupts, completeSignals, guardedTurn,
                 blockedTurn, roundTrip, lateRearm>>

NextChunk == \E text \in Texts : ChunkText(text)

SpecChunk == Init /\ [][NextChunk]_vars

\* -----------------------------------------------------------------
\* The claims
\* -----------------------------------------------------------------

\* The chunks whose source node is started and has not ended
Active == {k \in Keys : nodes[k].st = "playing"}

\* The place of key k in the sequence s, 0 if it has none
Pos(s, k) == IF \E i \in 1..Len(s) : s[i] = k
               THEN CHOOSE i \in 1..Len(s) : s[i] = k ELSE 0

\* The onNewTranscription calls made by upload u
EmissionsOf(es, u) == SelectSeq(es, LAMBDA e : e.u = u)

\* Nothing is in flight: no continuation, effect, timer, fetch, upload,
\* chat response, playback, microphone request or recorder is pending.
Quiescent ==
  /\ microQ = <<>> /\ ~EffectPending
  /\ resumeWait = <<>> /\ playWait = <<>> /\ timers = <<>>
  /\ \A c \in Calls : calls[c].intro # "pending" /\ calls[c].remf # "pending"
  /\ \A k \in Keys : nodes[k].st \notin {"playing", "stopped"}
  /\ \A u \in Recs : uploads[u].pc \in {"none", "done"}
  /\ \A i \in 1..Len(msgs) : msgs[i].pc = "done"
  /\ recStarts.vad = 0 /\ recStarts.manual = 0
  /\ \A r \in Recs : recs[r].st \in {"none", "inactive"}
  /\ \A v \in Vads : vads[v].st # "init"

\* C1: whatever the interleaving of playTTS calls on distinct turn ids,
\* enqueues, ended callbacks and maybeStartNext invocations, at no instant
\* are two chunks in the started (scheduled/active) state.
C1_AtMostOneActive == Cardinality(Active) <= 1

\* C2: without stopTTS or teardown, chunks become active in exactly the
\* order in which they were enqueued: the chunks started so far are the
\* first chunks enqueued, in that order, none skipped and none twice.
C2_StrictFifo ==
  /\ Len(startOrder) <= Len(enqOrder)
  /\ startOrder = SubSeq(enqOrder, 1, Len(startOrder))

\* C3: within one playTTS call with a remainder, the intro chunk is
\* enqueued before the remainder chunk and is therefore also started
\* before it, whichever fetch completes first.
C3_IntroBeforeRemainder ==
  \A c \in Calls :
    /\ Pos(enqOrder, <<c, 1>>) # 0 =>
         /\ Pos(enqOrder, <<c, 0>>) # 0
         /\ Pos(enqOrder, <<c, 0>>) < Pos(enqOrder, <<c, 1>>)
    /\ Pos(startOrder, <<c, 1>>) # 0 =>
         /\ Pos(startOrder, <<c, 0>>) # 0
         /\ Pos(startOrder, <<c, 0>>) < Pos(startOrder, <<c, 1>>)

\* C4: in every reachable state in which handsfree is active, at most one
\* of VAD armed, recording in progress and TTS playing is true.
C4_OnePhaseAtATime ==
  isHandsfreeActive =>
    /\ ~(vadArmed /\ isRecording)
    /\ ~(vadArmed /\ isPlaying)
    /\ ~(isRecording /\ isPlaying)

\* Closure v reports speech start in this step: loop() calls onStart().
SpeechStart(v) ==
  vads[v].st = "running" /\ ~vads[v].speaking /\ vads'[v].speaking

\* One of the five conditions that onStart tests holds.
SpeechBlocked ==
  \/ suppressVAD
  \/ isPlaying
  \/ isLoading
  \/ ~isHandsfreeActive
  \/ (mediaRecorderRef # 0 /\ recs[mediaRecorderRef].st = "recording")

\* C5: a VAD speech-start begins a recording (requests the microphone for a
\* new recorder) only if the VAD is not suppressed, TTS is not playing, no
\* transcription is loading, handsfree is active and no recorder is
\* recording; if one of these fails the event changes nothing but the VAD
\* closure's own speaking flag and silence timer.
C5_SpeechStartGuard ==
  [][ /\ recStarts'.vad > recStarts.vad =>
           ~SpeechBlocked /\ \E v \in Vads : SpeechStart(v)
      /\ \A v \in Vads :
           SpeechStart(v) =>
             IF SpeechBlocked
               THEN /\ UNCHANGED <<ttsVars, waitVars, hfRest, histVars,
                                   isRecording, isLoading, suppressVAD,
                                   vadArmed, blockPlayback, vadStopRef,
                                   mediaRecorderRef, recs>>
                    /\ \A w \in Vads \ {v} : vads'[w] = vads[w]
               ELSE recStarts'.vad = recStarts.vad + 1 ]_vars

\* C5 witness: a speech-start was turned away (the closure is speaking,
\* suppression is set, nothing was requested) after an earlier speech-start
\* had begun a recording.
C5_Witness ==
  /\ isHandsfreeActive /\ suppressVAD
  /\ \E v \in Vads : vads[v].st = "running" /\ vads[v].speaking
  /\ recStarts.vad = 0
  /\ \E r \in Recs : recs[r].kind = "vad" /\ recs[r].st \in {"stopping", "inactive"}

\* C6: with handsfree active, from the moment a handsfree turn begins
\* playing until its playback-complete signal has been received and the
\* debounce has elapsed, no VAD speech-start begins a recording; when that
\* debounce elapses the VAD is armed again with suppression and loading
\* cleared, so that a later speech-start passes the guard.  A turn whose
\* playback the block-until-recording effect has stopped is left out of
\* account: that effect arms the VAD on purpose.
C6_NoRecordingUntilDebounced ==
  [][ /\ recStarts'.vad > recStarts.vad =>
           guardedTurn = 0 \/ guardedTurn = blockedTurn
      /\ (guardedTurn # 0 /\ guardedTurn' = 0 /\ isHandsfreeActive') =>
           ~suppressVAD' /\ ~isLoading' /\ vadArmed' ]_vars

\* C7: deactivating handsfree, from any state and at once, leaves the VAD
\* released and not armed, no recorder recording and every recorder's
\* tracks stopped, and the suppression flag cleared.
C7_DeactivationReleases ==
  [][ (isHandsfreeActive /\ ~isHandsfreeActive') =>
        /\ ~vadArmed' /\ vadStopRef' = 0
        /\ \A v \in Vads : vads'[v].st # "running"
        /\ \A r \in Recs : recs'[r].st # "recording" /\ ~recs'[r].tracks
        /\ ~suppressVAD' ]_vars

\* C8: while handsfree stays active, a cycle that left Idle and in which
\* every collaborator has responded (nothing is in flight any more) is back
\* in Idle: the VAD is armed, not suppressed, and nothing is loading.
C8_CycleReturnsToIdle ==
  (isHandsfreeActive /\ UsedRecs >= 1 /\ Quiescent) =>
    vadArmed /\ ~suppressVAD /\ ~isLoading

\* C9: every upload that has run to its end has called onNewTranscription
\* exactly once, whatever its stream held and whatever other upload ran
\* beside it.
C9_ExactlyOncePerUtterance ==
  \A u \in Recs : uploads[u].pc = "done" => Len(EmissionsOf(emissions, u)) = 1

\* C10: an upload calls onNewTranscription at most once, however many
\* `data: [DONE]` lines its stream holds, and once a `[DONE]` line has been
\* delivered nothing changes what the upload has emitted.
C10_AtMostOneEmission ==
  [][ \A u \in Recs :
        /\ Len(EmissionsOf(emissions', u)) <= 1
        /\ doneSeen[u] >= 1 =>
             EmissionsOf(emissions', u) = EmissionsOf(emissions, u) ]_vars

\* C10 witness: an upload whose stream held two `[DONE]` lines has returned
\* with one transcript emitted.
C10_Witness ==
  \E u \in Recs : /\ uploads[u].pc = "done"
                  /\ doneSeen[u] >= 2
                  /\ Len(EmissionsOf(emissions, u)) = 1
                  /\ EmissionsOf(emissions, u)[1].text # FailureText

\* The events of the body sent to upload u, in the order sent
SentEvents(u) ==
  LET heads == SelectSeq(streams[u].sent, LAMBDA ch : ch.part = "head")
  IN [i \in 1..Len(heads) |-> heads[i].ev]

\* The events sent ahead of the first `[DONE]`
RECURSIVE BeforeDone(_)
BeforeDone(evs) ==
  IF evs = <<>> \/ Head(evs) = DoneLine THEN <<>>
  ELSE <<Head(evs)>> \o BeforeDone(Tail(evs))

\* The delta fields of evs, concatenated in order
DeltasOf(evs) ==
  LET ds == SelectSeq(evs, LAMBDA e : e.kind = "delta")
  IN [i \in 1..Len(ds) |-> ds[i].tok]

\* The usage event of evs, "" if there is none
UsageOf(evs) ==
  LET us == SelectSeq(evs, LAMBDA e : e.kind = "usage")
  IN IF us = <<>> THEN "" ELSE us[Len(us)].tok

\* C11: the text passed to onNewTranscription at `[DONE]` is the
\* concatenation, in arrival order, of the delta fields of all the
\* transcript.text.delta events sent before `[DONE]`, and the usage passed
\* is the usage event sent before `[DONE]`, however the body is divided
\* into reads.
C11_TranscriptIsConcatenation ==
  \A i \in 1..Len(emissions) :
    LET e == emissions[i] IN
    (streams[e.u].sent # <<>> /\ e.text # FailureText) =>
      /\ e.text = DeltasOf(BeforeDone(SentEvents(e.u)))
      /\ e.usage = UsageOf(BeforeDone(SentEvents(e.u)))

\* The call onNewTranscription("Failed to process audio") made by upload u
FailureEmission(u) == [u |-> u, text |-> FailureText, usage |-> ""]

\* C12: when the upload or the stream fails (a status that is not ok, no
\* body, a rejected fetch, a read error) sendAudioToAPI returns to its
\* caller and, in the step in which it fails, calls onNewTranscription with
\* the text "Failed to process audio" and no usage, which starts a chat
\* turn as any transcript does.
C12_FailureBecomesTranscript ==
  [][ \A u \in Recs :
        (uploads[u].pc \in {"fetch", "read"} /\ uploads'[u].err # "") =>
          /\ uploads'[u].pc = "done"
          /\ emissions' = Append(emissions, FailureEmission(u))
          /\ Len(msgs') = Len(msgs) + 1
          /\ msgs'[Len(msgs')].pc = "streaming" ]_vars

\* C12 witness: one upload was refused by the server and another lost its
\* stream to a read error, and each has emitted the failure text.
C12_Witness ==
  \E u, w \in Recs :
    /\ uploads[u].pc = "done" /\ uploads[u].err = "notok"
    /\ uploads[w].pc = "done" /\ uploads[w].err = "read"
    /\ EmissionsOf(emissions, u) = <<FailureEmission(u)>>
    /\ EmissionsOf(emissions, w) = <<FailureEmission(w)>>

\* The silence timers of closure v that are pending in ts
SilenceTimers(ts, v) ==
  SelectSeq(ts, LAMBDA t : t.kind = "silence" /\ t.c = v)

\* Closure v calls cb ("start" or "stop") in this step.
VadCalls(v, cb) ==
  vads'[v].cbs # vads[v].cbs /\ vads'[v].cbs[2] = cb

\* C13: for every sequence of loud frames and timer expiries, the onStart
\* and onStop calls of a VAD closure alternate strictly, beginning with
\* onStart (so that the stops never outnumber the starts), and onStop is
\* called only while speaking, by the one pending silence timer of the
\* closure, which every loud frame replaces: the timer that fires is the
\* one set by the latest loud frame.
C13_StartStopAlternate ==
  [][ \A v \in Vads :
        /\ vads'[v].cbs[2] = "none" => vads'[v].cbs[1] = "none"
        /\ vads'[v].cbs[2] = "start" => vads'[v].cbs[1] \in {"none", "stop"}
        /\ vads'[v].cbs[2] = "stop" => vads'[v].cbs[1] = "start"
        /\ Len(SilenceTimers(timers', v)) <= 1
        /\ VadCalls(v, "start") =>
             /\ ~vads[v].speaking /\ vads'[v].speaking
             /\ SilenceTimers(timers', v) # <<>>
        /\ VadCalls(v, "stop") =>
             /\ vads[v].speaking /\ ~vads'[v].speaking
             /\ vads[v].cbs[2] = "start"
             /\ Len(SilenceTimers(timers, v)) = 1
             /\ SilenceTimers(timers', v) = <<>> ]_vars

\* C13 witness: a closure has called onStart, onStop and onStart again.
C13_Witness ==
  \E v \in Vads : vads[v].st = "running" /\ vads[v].speaking
                   /\ vads[v].cbs = <<"stop", "start">>

\* The closure vd holds a live microphone stream and an open AudioContext.
HoldsMicrophone(vd) == vd.st \in {"running", "leaked"}

\* C14: a VAD closure whose stop function has been called, be it before its
\* microphone request has settled or after its initialisation failed,
\* holds no live microphone track and no open audio context, and has no
\* silence timer pending.
C14_StoppedHoldsNothing ==
  \A v \in Vads :
    vads[v].stopped =>
      ~HoldsMicrophone(vads[v]) /\ SilenceTimers(timers, v) = <<>>

\* A recorder started by the mic button holds a live microphone stream.
ManualHoldsMicrophone ==
  \E r \in Recs : recs[r].kind = "manual" /\ recs[r].tracks

\* C15: while a recorder started by the mic button holds the microphone,
\* no VAD closure holds a live microphone stream, however
\* startManualRecording is interleaved with the arming and the
\* initialisation of the VAD.
C15_MicrophoneExclusive ==
  ManualHoldsMicrophone => \A v \in Vads : ~HoldsMicrophone(vads[v])

\* A fetchAndDecode call failed: it returned null, or its fetch was
\* rejected.
Failed(f) == f \in {"fail", "reject"}

\* The remainder of call c failed while its intro succeeded.
RemainderFailed(c) ==
  Failed(calls[c].remf) /\ calls[c].intro \in {"ok", "hit"}

\* C16: when the fetch of the remainder fails while the intro succeeds,
\* playTTS returns the usage of the intro alone, and for a handsfree turn
\* the playback-complete signal is dispatched at most once and not before
\* the intro has finished playing (or has been stopped).
C16_FailedRemainderSignal ==
  \A c \in Calls :
    RemainderFailed(c) =>
      /\ calls[c].pc = "done" => calls[c].ret = "intro"
      /\ calls[c].hf =>
           /\ completeSignals[c] <= 1
           /\ completeSignals[c] = 1 =>
                nodes[<<c, 0>>].st \in {"ended", "stopped"}

\* C17: stopTTS may be called at any point; a fetch in flight completes and
\* its result is discarded: after stopTTS no chunk of a playTTS call that
\* began before it is pushed on the queue, and none is started.
C17_StopDiscardsInFlight ==
  [][ /\ Len(enqOrder') > Len(enqOrder) =>
           ~calls[enqOrder'[Len(enqOrder')][1]].cut
      /\ Len(startOrder') > Len(startOrder) =>
           ~calls[startOrder'[Len(startOrder')][1]].cut ]_vars

\* The queue item that playTTS pushes for the chunk k
ItemOf(k) == IF k[2] = 0 THEN IntroItem(k[1]) ELSE RemItem(k[1])

\* The chunks of call c pushed so far (in eo) that carry its onComplete
CompletionItems(eo, c) ==
  {i \in 1..Len(eo) : eo[i][1] = c /\ ItemOf(eo[i]).cb}

\* C18: a playTTS call that was given an onComplete, has enqueued its
\* intro and has returned has attached the callback to exactly one queue
\* item, the last chunk of the turn.
C18_CompletionOnExactlyOne ==
  \A c \in Calls :
    (calls[c].cb /\ calls[c].pc = "done" /\ Pos(enqOrder, <<c, 0>>) # 0) =>
      Cardinality(CompletionItems(enqOrder, c)) = 1

\* What does hold of the pushes of playTTS: every push is the intro, with
\* lastChunk true and the caller's onComplete if the text has no remainder
\* (then no second fetch is made) and with lastChunk false and no
\* onComplete if it has one, or the remainder, with lastChunk true and the
\* caller's onComplete.  The callback is attached to at most one queue
\* item, the last chunk: to exactly one when the call returns having
\* enqueued every chunk of the turn, to none when the remainder was missing.
CompletionOnLastChunk ==
  [][ /\ Len(enqOrder') > Len(enqOrder) =>
           LET k == enqOrder'[Len(enqOrder')]
               c == k[1]
               it == playQueue'[Len(playQueue')]
           IN /\ enqOrder' = Append(enqOrder, k)
              /\ Pos(enqOrder, k) = 0
              /\ playQueue' = Append(playQueue, it)
              /\ it = ItemOf(k)
              /\ it.key = k /\ it.base = calls[c].msg
              /\ (k[2] = 0 /\ ~calls[c].rem) =>
                   it.last /\ it.cb = calls[c].cb /\ calls[c].remf = "norem"
              /\ (k[2] = 0 /\ calls[c].rem) => ~it.last /\ ~it.cb
              /\ k[2] = 1 =>
                   /\ calls[c].rem /\ it.last /\ it.cb = calls[c].cb
                   /\ Pos(enqOrder, <<c, 0>>) # 0
      /\ \A c \in Calls :
           calls'[c].cb =>
             /\ Cardinality(CompletionItems(enqOrder', c)) <= 1
             /\ \A i \in CompletionItems(enqOrder', c) :
                  ItemOf(enqOrder'[i]).last
             /\ (calls'[c].pc = "done" /\ calls'[c].ret = "usage") =>
                  Cardinality(CompletionItems(enqOrder', c)) = 1
             /\ (calls'[c].pc = "done" /\ calls'[c].ret = "intro") =>
                  CompletionItems(enqOrder', c) = {} ]_vars

\* Both cases of the flags occur: a call with an onComplete has pushed its
\* intro and its remainder and has returned, and another has pushed its
\* only chunk.
BothEnqueueCases ==
  \E c, d \in Calls :
    /\ calls[c].cb /\ calls[c].rem /\ calls[c].pc = "done"
    /\ calls[c].ret = "usage"
    /\ Pos(enqOrder, <<c, 0>>) # 0 /\ Pos(enqOrder, <<c, 1>>) # 0
    /\ calls[d].cb /\ ~calls[d].rem /\ calls[d].pc = "done"
    /\ calls[d].ret = "usage" /\ Pos(enqOrder, <<d, 0>>) # 0

\* The chunk k is on the queue or has been pushed on it.
Enqueued(k, pq, eo) ==
  Pos(eo, k) # 0 \/ \E i \in 1..Len(pq) : pq[i].key = k

\* C19: once the fetch or the decoding of the intro has failed, playTTS
\* makes no second attempt for it, pushes neither the intro nor the
\* remainder, and returns null (it does not throw) in a step that leaves
\* the queue, the nodes and the playing state as they are.
C19_FailedIntroEnqueuesNothing ==
  [][ \A c \in Calls :
        /\ Failed(calls[c].intro) =>
             /\ calls'[c].intro = calls[c].intro
             /\ calls[c].pc = "done" =>
                  calls'[c].pc = "done" /\ calls'[c].ret = calls[c].ret
             /\ (calls[c].pc # "done" /\ calls'[c].pc = "done") =>
                  /\ calls'[c].ret = "null"
                  /\ UNCHANGED <<qVars, enqOrder, startOrder, hVars,
                                 completeSignals>>
        /\ Failed(calls'[c].intro) =>
             /\ ~Enqueued(<<c, 0>>, playQueue', enqOrder')
             /\ ~Enqueued(<<c, 1>>, playQueue', enqOrder') ]_vars

\* What does hold of a failed intro: playTTS makes no second attempt,
\* pushes nothing and ends in a step that leaves the queue, the nodes and
\* the playing state as they are; it returns null when fetchAndDecode
\* returned null, and its promise is rejected when the fetch was rejected.
FailedIntroLeavesQueue ==
  [][ \A c \in Calls :
        /\ Failed(calls[c].intro) =>
             /\ calls'[c].intro = calls[c].intro
             /\ calls[c].pc = "done" =>
                  calls'[c].pc = "done" /\ calls'[c].ret = calls[c].ret
             /\ (calls[c].pc # "done" /\ calls'[c].pc = "done") =>
                  /\ calls'[c].ret =
                       (IF calls[c].intro = "fail" THEN "null" ELSE "rejected")
                  /\ UNCHANGED <<qVars, enqOrder, startOrder, hVars,
                                 completeSignals>>
        /\ Failed(calls'[c].intro) =>
             /\ ~Enqueued(<<c, 0>>, playQueue', enqOrder')
             /\ ~Enqueued(<<c, 1>>, playQueue', enqOrder') ]_vars

\* playTTS is entered by call c in this step.
PlayTTSCalled(c) ==
  calls[c].pc \in {"idle", "prepare"} /\ calls'[c].pc \notin {"idle", "prepare"}

\* C20: playTTS called with the id of the turn that is playing returns
\* null, issues no fetch, pushes nothing and changes nothing of the
\* pipeline or of the playback state.
C20_ReplayIsNoOp ==
  [][ \A c \in Calls :
        (PlayTTSCalled(c) /\ isPlaying /\ currentMessageId = calls'[c].msg) =>
          /\ calls'[c].pc = "done" /\ calls'[c].ret = "null"
          /\ calls'[c].intro = "none" /\ calls'[c].remf = "none"
          /\ UNCHANGED <<pipeVars, cache, qVars, waitVars, enqOrder,
                         startOrder>> ]_vars

\* stopTTS is called in this step.
StopTTSCalled == stops' = stops + 1

\* What stopTTS leaves behind: no current node, an empty queue, the dequeue
\* guard released, isPlaying false and no current turn id.
StoppedState(cn, pq, dq, ip, cm) ==
  cn = NoKey /\ pq = <<>> /\ ~dq /\ ~ip /\ cm = 0

\* What does hold of every stopTTS call: it returns (no exception leaves
\* it) with no current node, the queue empty, the dequeue guard released,
\* isPlaying false and the current turn id null, the node that was current
\* being stopped; and a call made in the state that a call leaves changes
\* nothing of the pipeline, the queue, the nodes or the playback state.
StopResets ==
  [][ StopTTSCalled =>
        /\ StoppedState(currentNode', playQueue', isDequeuing', isPlaying',
                        currentMessageId')
        /\ currentNode # NoKey => nodes'[currentNode].st # "playing"
        /\ StoppedState(currentNode, playQueue, isDequeuing, isPlaying,
                        currentMessageId) =>
             UNCHANGED <<pipeVars, cache, qVars, waitVars, enqOrder,
                         startOrder>> ]_vars

\* C21: from any state, after stopTTS returns there is no active node (no
\* chunk is in the started state), the queue is empty, the dequeue guard is
\* released, isPlaying is false and the current turn id is null.
C21_StopLeavesNothingActive ==
  [][ StopTTSCalled =>
        /\ Active' = {}
        /\ StoppedState(currentNode', playQueue', isDequeuing', isPlaying',
                        currentMessageId') ]_vars

\* The continuations suspended inside primePipeline
Priming ==
  SelectSeq(playWait \o resumeWait \o microQ,
            LAMBDA t : t.st \in {"pp1", "pp2"})

\* C22: however many prime() calls are made, overlapping ones and the
\* priming done by playTTS included, one audio context (with its master
\* gain, analyser and stream destination) is created, on the first call;
\* once the pipeline is primed it stays primed, the element pull has been
\* started wherever a stream is attached to the element, and no later call
\* creates anything or changes what priming set.
C22_PrimeOnce ==
  [][ /\ ctxCreated' <= 1
      /\ ctxCreated' = 1 <=> ctxState' # "null"
      /\ (Priming # <<>> \/ primed) => ctxCreated = 1
      /\ primed' => (startedPull' <=> ~isAndroid)
      /\ primed => UNCHANGED <<primed, startedPull, ctxCreated, isAndroid>> ]_vars

\* C22 witness: the prime() of a handsfree turn and the playTTS of a bubble
\* click are both suspended inside primePipeline, one context having been
\* created.
C22_Witness ==
  /\ ctxCreated = 1 /\ ~primed
  /\ \E i, j \in 1..Len(Priming) :
       Priming[i].k = "hplay" /\ Priming[j].k = "play"

\* C23: after a VAD speech-stop has ended a recording, and until the re-arm
\* that follows the completion of the playback of the reply to it (or until
\* handsfree is switched off), the VAD stays suppressed and no speech-start
\* begins a new recording.
C23_SuppressedForRoundTrip ==
  [][ /\ (roundTrip'.rec # 0 /\ isHandsfreeActive') => suppressVAD'
      /\ recStarts'.vad > recStarts.vad => roundTrip.rec = 0 ]_vars

\* maybeStartNext dispatches "tts-started-flag" in this step (it starts a
\* node on an idle pipeline) and handsfree, being active, listens.
StartedSignal ==
  /\ Len(startOrder') > Len(startOrder)
  /\ isHandsfreeActive
  /\ IF Head(microQ).st = "start" THEN Head(microQ).idle
                                   ELSE currentNode = NoKey

\* C24: with handsfree active, the receipt of the playback-started signal
\* stops the VAD loop (no closure is left running, no silence timer
\* pending, vadStopRef null), marks the VAD disarmed as well as suppressed
\* and clears the loading and recording flags; and while handsfree is
\* active and the VAD is not armed, no closure calls onStart or onStop.
C24_StartedSignalDisarms ==
  [][ /\ StartedSignal =>
           /\ vadStopRef' = 0 /\ ~vadArmed' /\ suppressVAD'
           /\ ~isLoading' /\ ~isRecording'
           /\ \A v \in Vads : /\ vads'[v].st # "running"
                               /\ SilenceTimers(timers', v) = <<>>
      /\ (isHandsfreeActive /\ ~vadArmed) =>
           \A v \in Vads : ~VadCalls(v, "start") /\ ~VadCalls(v, "stop") ]_vars

\* C24 witness: the VAD had been re-armed after the playback of a reply
\* and was listening when a click on a bubble began a playback; the started
\* signal has left the VAD stopped, disarmed and suppressed.
C24_Witness ==
  /\ isHandsfreeActive /\ isPlaying
  /\ ~vadArmed /\ vadStopRef = 0 /\ suppressVAD
  /\ \A v \in Vads : vads[v].st # "running"
  /\ \E c \in Calls : calls[c].hf /\ completeSignals[c] >= 1
  /\ \E k \in Keys : nodes[k].st = "playing" /\ ~calls[k[1]].hf

\* The VAD closures whose loop is live: started and not stopped, the
\* microphone requested or the frames running.
LiveVads == {v \in Vads : vads[v].st \in {"init", "running"} /\ ~vads[v].stopped}

\* C25: at every instant at most one VAD loop is live, and it is the one
\* whose stop function vadStopRef holds, however often the
\* playback-complete signal is delivered for a turn and however activation
\* and a re-arm fall together.
C25_OneVadLoop ==
  /\ Cardinality(LiveVads) <= 1
  /\ \A v \in LiveVads : vadStopRef = v /\ vadArmed

\* C25 witness: handsfree was switched off and on again while a re-arm was
\* pending.  Under the second activation the debounce callback of the first
\* has run and the block effect has stopped a playback and called for the
\* VAD; the playback-complete signal of a turn was delivered twice, no
\* debounce timer is left, and one VAD loop is live.
C25_Witness ==
  /\ isHandsfreeActive /\ vadArmed
  /\ acts = 2 /\ lateRearm /\ blockedTurn # 0
  /\ Cardinality(LiveVads) = 1
  /\ \E c \in Calls : completeSignals[c] >= 2
  /\ \A i \in 1..Len(timers) : timers[i].kind # "debounce"

\* C30: a VAD closure whose microphone request was rejected stays inert: it
\* has called neither onStart nor onStop and never does, it is not
\* speaking and has no silence timer; the rejection is caught inside
\* init(), so the step in which it happens changes nothing but the
\* closure; and a call of its stop function completes, with the handler
\* that makes it, and leaves nothing of the closure behind.
C30_FailedVadIsInert ==
  [][ \A v \in Vads :
        /\ vads'[v].st = "failed" =>
             /\ vads'[v].cbs = <<"none", "none">> /\ ~vads'[v].speaking
             /\ SilenceTimers(timers', v) = <<>>
        /\ (vads[v].st = "init" /\ vads'[v].st = "failed") =>
             /\ \A w \in Vads \ {v} : vads'[w] = vads[w]
             /\ UNCHANGED <<ttsVars, waitVars, hfRest, histVars, isRecording,
                            isLoading, suppressVAD, vadArmed, blockPlayback,
                            vadStopRef, mediaRecorderRef, recs, timers>>
        /\ (vads[v].st = "failed" /\ vads'[v].st # "failed") =>
             vads'[v] = NoVad /\ vadStopRef' # v ]_vars

\* C30 witness: handsfree is on and armed with a closure whose microphone
\* request was rejected: it has made no callback and holds no timer.
C30_Witness ==
  /\ isHandsfreeActive /\ vadArmed /\ vadStopRef # 0
  /\ vads[vadStopRef].st = "failed"
  /\ vads[vadStopRef].cbs = <<"none", "none">>

\* The onended handler of the node of chunk k runs in this step.
Ended(k) == nodes[k].st \in {"playing", "stopped"} /\ nodes'[k].st = "ended"

\* The timers of ts by which the pipeline dispatches "tts-oncomplete"
PipelineSignals(ts) == SelectSeq(ts, LAMBDA t : t.kind = "oncomplete")

\* C26: when the node of a chunk ends with the queue empty, isPlaying
\* becomes false and the current turn id null, and the pipeline sets about
\* dispatching the playback-complete signal if and only if the item was
\* pushed as handsfree, which only a handsfree turn does; with the queue
\* not empty the playing state, the turn id and the queue stay and nothing
\* is signalled; either way the guard is released and maybeStartNext is
\* queued to pull the next item.  No signal is ever dispatched for a turn
\* played with isHandsfree false.
C26_EndOfChunk ==
  [][ /\ \A k \in Keys :
           Ended(k) =>
             /\ IF playQueue = <<>>
                  THEN /\ ~isPlaying' /\ currentMessageId' = 0
                       /\ Len(PipelineSignals(timers')) =
                            Len(PipelineSignals(timers))
                              + (IF nodes[k].hf THEN 1 ELSE 0)
                  ELSE /\ UNCHANGED <<isPlaying, currentMessageId, playQueue>>
                       /\ PipelineSignals(timers') = PipelineSignals(timers)
             /\ nodes[k].hf => calls[k[1]].hf
             /\ ~isDequeuing' /\ microQ' = <<MsnTask("invoke")>>
      /\ Len(PipelineSignals(timers')) > Len(PipelineSignals(timers)) =>
           \E k \in Keys : Ended(k)
      /\ \A c \in Calls :
           completeSignals'[c] > completeSignals[c] => calls[c].hf ]_vars

\* C26 witness: a turn played by a bubble click has ended with nothing
\* signalled for it, a handsfree turn of two chunks has ended and been
\* signalled, and nothing is playing.
C26_Witness ==
  /\ ~isPlaying /\ currentMessageId = 0 /\ playQueue = <<>>
  /\ \E c, d \in Calls :
       /\ ~calls[c].hf /\ nodes[<<c, 0>>].st = "ended"
       /\ completeSignals[c] = 0
       /\ calls[d].hf /\ nodes[<<d, 0>>].st = "ended"
       /\ nodes[<<d, 1>>].st = "ended" /\ completeSignals[d] >= 1

\* The figures summed over the chunks whose usage is set
SumOf(iu, ru, f) == (IF iu.has THEN iu[f] ELSE 0) + (IF ru.has THEN ru[f] ELSE 0)

\* What the two versions of C27 share: a call that returns at its end
\* returns null if no chunk carried usage, and else the costs and the
\* character counts summed and, if one chunk alone reports a latency, that
\* latency; a call that returns early returns the usage of the intro (a
\* missing remainder) or null.
UsageSummed(c) ==
  LET iu == calls[c].iu
      ru == calls[c].ru
      out == calls[c].out
  IN /\ calls[c].ret = "usage" =>
          /\ out.has <=> (iu.has \/ ru.has)
          /\ ~out.has => out = NoUsage
          /\ out.has =>
               /\ out.cost = SumOf(iu, ru, "cost")
               /\ out.chars = SumOf(iu, ru, "chars")
               /\ (iu.has /\ ~ru.has) => out.lat = iu.lat
               /\ (ru.has /\ ~iu.has) => out.lat = ru.lat
     /\ calls[c].ret = "intro" => out = iu
     /\ calls[c].ret = "null" => out = NoUsage

\* Both chunks of call c reported a latency and the call returned at its end.
BothLatencies(c) ==
  calls[c].ret = "usage" /\ calls[c].iu.has /\ calls[c].ru.has

\* C27: the usage returned by playTTS sums cost and character count over
\* the intro and the remainder and takes as latency the average of the two
\* latencies when both chunks report one, otherwise the one reported; it
\* is null when no chunk carried usage.
C27_UsageAveraged ==
  \A c \in Calls :
    /\ UsageSummed(c)
    /\ BothLatencies(c) => 2 * calls[c].out.lat = calls[c].iu.lat + calls[c].ru.lat

\* C27, amended: as above, the latency of two chunks being their average
\* rounded to a whole number, a half rounded up.
C27_UsageRounded ==
  \A c \in Calls :
    /\ UsageSummed(c)
    /\ BothLatencies(c) =>
         2 * calls[c].out.lat \in {calls[c].iu.lat + calls[c].ru.lat,
                                   calls[c].iu.lat + calls[c].ru.lat + 1}

\* C27 witness: usage {1, 30, 100} for the intro and {2, 50, 200} for the
\* remainder has been returned as {3, 80, 150}.
C27_Witness ==
  \E c \in Calls :
    /\ calls[c].pc = "done" /\ calls[c].ret = "usage"
    /\ calls[c].iu = Usage(1, 30, 100) /\ calls[c].ru = Usage(2, 50, 200)
    /\ calls[c].out = Usage(3, 80, 150)

\* fetchAndDecode for chunk idx of the call c issues its request in this
\* step.
Requested(c, idx) ==
  IF idx = 0 THEN calls[c].intro # "pending" /\ calls'[c].intro = "pending"
             ELSE calls[c].remf # "pending" /\ calls'[c].remf = "pending"

\* fetchAndDecode for chunk idx of the call c returns null or is rejected
\* in this step.
FetchFailed(c, idx) ==
  IF idx = 0 THEN calls[c].intro = "pending" /\ Failed(calls'[c].intro)
             ELSE calls[c].remf = "pending" /\ Failed(calls'[c].remf)

\* C28: a chunk key fetched and decoded stays in the cache, every later
\* fetchAndDecode for that key returns the cached buffer without a request,
\* and a fetch or decode that fails leaves the cache as it was.
C28_CacheKept ==
  [][/\ cache \subseteq cache'
     /\ \A c \in Calls, idx \in {0, 1} :
          /\ Requested(c, idx) => <<calls'[c].msg, idx>> \notin cache
          /\ FetchFailed(c, idx) => cache' = cache]_vars

\* C28 witness: a click on the bubble of a reply still streaming, its text
\* short then, fetched and cached chunk 0 of the message; the playback of
\* the complete reply, long enough to be split, took its chunk 0 from the
\* cache.
C28_Witness ==
  \E c, d \in Calls :
    /\ ~calls[c].hf /\ ~calls[c].rem /\ calls[c].intro = "ok"
    /\ calls[d].hf /\ calls[d].rem /\ calls[d].intro = "hit"
    /\ calls[c].msg = calls[d].msg
    /\ <<calls[d].msg, 0>> \in cache

\* The call c resumes in this step from `await ensurePlaybackReady()`.
ReadinessKnown(c) ==
  /\ microQ # <<>>
  /\ Head(microQ).k = "play" /\ Head(microQ).st = "cont" /\ Head(microQ).c = c
  /\ calls'[c] # calls[c]

\* C29: a playTTS call whose context could not be brought to running
\* returns null (it does not throw), having issued no fetch, enqueued
\* nothing and left the playback state as it was.
C29_UnavailableReturnsNull ==
  [][\A c \in Calls :
       ReadinessKnown(c) /\ ctxState # "running" =>
         /\ calls'[c].pc = "done" /\ calls'[c].ret = "null"
         /\ calls'[c].intro = "none" /\ calls'[c].remf = "none"
         /\ calls'[c].out = NoUsage
         /\ UNCHANGED <<qVars, cache, enqOrder, startOrder>>]_vars

\* C29 witness: the first call has returned null without a fetch, the
\* context it created being suspended still after ctx.resume().
C29_Witness ==
  /\ calls[1].pc = "done" /\ calls[1].ret = "null"
  /\ calls[1].intro = "none" /\ calls[1].remf = "none"
  /\ ctxState = "suspended" /\ ctxCreated = 1 /\ interrupts = 0
  /\ playQueue = <<>> /\ enqOrder = <<>> /\ ~isPlaying

\* The characters of t that are not white space
Content(t) == SelectSeq(t, LAMBDA ch : ~IsSpace(ch))

\* A text has been chunked.
Chunked == chunked # NoChunks

\* C32: a text of at most 80 characters comes back as one chunk, equal to
\* the text, with no remainder.
C32_ShortTextIsOneChunk ==
  Chunked /\ Len(chunked.text) <= 80 => chunked.chunks = <<chunked.text>>

\* C32 witness: a text of exactly 80 characters that holds two sentences
\* has come back whole.
C32_Witness ==
  /\ Len(chunked.text) = 80 /\ Len(Split(chunked.text)) >= 2
  /\ chunked.chunks = <<chunked.text>>

\* The intro and the remainder of the text chunked last
Rejoined ==
  IF Len(chunked.chunks) = 2 THEN chunked.chunks[1] \o chunked.chunks[2]
  ELSE chunked.chunks[1]

\* C31: for a text longer than 80 characters the intro followed by the
\* remainder gives the text back, no character lost and none twice, white
\* space aside; the intro is the beginning of the text and the remainder
\* is what follows it.
C31_ChunksRejoin ==
  Chunked /\ Len(chunked.text) > 80 =>
    /\ Content(Rejoined) = Content(chunked.text)
    /\ Content(chunked.chunks[1]) =
         SubSeq(Content(chunked.text), 1, Len(Content(chunked.chunks[1])))

\* C33: while handsfree is inactive no VAD loop is armed or running; a
\* timer that was pending when handsfree was turned off arms none.
C33_NoVadWhileInactive ==
  ~isHandsfreeActive => ~vadArmed /\ vadStopRef = 0 /\ LiveVads = {}

\* No recorder has been started yet.
NoRecordingYet == UsedRecs = 0 /\ ~isRecording

\* C34: after handsfree is activated the loop begins by listening: once
\* the effects have run, nothing plays before the first recording has
\* started, and the block is lifted once a recording has started.
C34_BeginsByListening ==
  (isHandsfreeActive /\ ~BlockPending) =>
    /\ NoRecordingYet => ~isPlaying
    /\ isRecording => ~blockPlayback

\* The VAD closure v makes its onStop callback in this step.
SpeechStopped(v) ==
  /\ SilenceFires(vads[v])
  /\ vads'[v] = SilenceElapsed(vads[v])
  /\ \E i \in 1..Len(timers) :
       /\ timers[i].kind = "silence" /\ timers[i].c = v
       /\ timers' = RemoveAt(timers, i)

\* C35: a speech-stop that finds no recording in progress changes no
\* state: it sets neither the suppression flag nor the loading flag and
\* stops no recorder, so that no upload follows.
C35_IdleSpeechStopIsInert ==
  [][\A v \in Vads :
       SpeechStopped(v) /\ ~Recording(Cur) =>
         UNCHANGED <<suppressVAD, isLoading, isRecording, recs,
                     mediaRecorderRef>>]_vars

\* The recorder r, created by the VAD's onStart, starts recording in this
\* step.
VadRecordingBegins(r) ==
  recs[r].st = "none" /\ recs'[r].st = "recording" /\ recs'[r].kind = "vad"

\* C36: no recording triggered by the VAD becomes active while handsfree
\* is inactive, TTS is playing or the VAD is suppressed, whatever happened
\* while the microphone request of the recorder was pending.
C36_NoRecordingAgainstGuard ==
  [][\A r \in Recs :
       VadRecordingBegins(r) =>
         isHandsfreeActive /\ ~isPlaying /\ ~suppressVAD]_vars

\* onended of the node k, which stopTTS had stopped, runs in this step.
StoppedNodeEnds(k) == nodes[k].st = "stopped" /\ nodes'[k].st = "ended"

\* C37: onended of a node that stopTTS stopped has no effect on later
\* playback: while a newer chunk plays it neither releases the dequeue
\* guard nor clears isPlaying or the current turn, and it sets no timer
\* for the completion callback or the playback-complete signal.
C37_StoppedNodeEndsQuietly ==
  [][\A k \in Keys :
       StoppedNodeEnds(k) =>
         /\ (\E n \in Keys : nodes[n].st = "playing") =>
              UNCHANGED <<isDequeuing, isPlaying, currentMessageId>>
         /\ timers' = timers]_vars

\* The recorders in the recording state
RecordingNow == {r \in Recs : recs[r].st = "recording"}

\* C38: at every instant at most one MediaRecorder is recording, and a
\* recorder that is recording is the one mediaRecorderRef holds, so that
\* a stop reaches it.
C38_OneRecorder ==
  /\ Cardinality(RecordingNow) <= 1
  /\ \A r \in RecordingNow : mediaRecorderRef = r

\* C39: a VAD closure whose stop function has been called calls neither
\* onStart nor onStop again: a callback is made only by a closure that is
\* running and not stopped, the step that stops a closure makes none, and
\* a silence timer is pending only for a closure running and not stopped.
C39_StoppedVadIsSilent ==
  [][/\ \A v \in Vads, cb \in {"start", "stop"} :
          VadCalls(v, cb) =>
            /\ vads[v].st = "running" /\ ~vads[v].stopped
            /\ vads'[v].st = "running" /\ ~vads'[v].stopped
     /\ \A i \in 1..Len(timers') :
          timers'[i].kind = "silence" =>
            /\ vads'[timers'[i].c].st = "running"
            /\ ~vads'[timers'[i].c].stopped]_vars

\* C39 witness: a closure stopped while its microphone request was pending
\* has finished init() since, and has made no callback.
C39_Witness ==
  \E v \in Vads :
    /\ vads[v].st = "leaked" /\ vads[v].stopped
    /\ vads[v].cbs = <<"none", "none">>

\* C40: a turn's chunks are enqueued at most once across duplicate
\* triggers: a playTTS call made for a turn while another call was
\* fetching the turn's intro enqueues no chunk that another call for the
\* turn enqueues.
C40_EnqueuedOnce ==
  \A i, j \in 1..Len(enqOrder) :
    LET c == enqOrder[i][1]
        d == enqOrder[j][1]
    IN (calls[c].twin /\ d # c /\ calls[d].msg = calls[c].msg) =>
         enqOrder[i][2] # enqOrder[j][2]

====
